---- MODULE Spec2Model ----
(***************************************************************************)
(* Model of the Wacom BLE downloader: the reply correlator of WacomBLE     *)
(* (pendingReplies, waitForReply, handleCommandResponse), the bulk         *)
(* transfer buffer, and the protocol operations of WacomProtocol that run  *)
(* on top of it.                                                           *)
(*                                                                         *)
(* Time is counted in milliseconds and advances in steps of TickMs.        *)
(* JavaScript runs every callback to completion: a notification handler,   *)
(* a timer callback and the promise continuations (microtasks) they wake   *)
(* up finish before the next notification or timer is delivered.           *)
(***************************************************************************)
EXTENDS Integers, Sequences, FiniteSets, TLC

(***************************************************************************)
(* Opcodes and payload bytes (decimal values of the hexadecimal literals)  *)
(***************************************************************************)
OP_C8 == 200
BYTE_BE == 190
BYTE_ED == 237
OP_B3 == 179
OP_50 == 80
OP_51 == 81
OP_E4 == 228
OP_53 == 83
OP_BD == 189
OP_E6 == 230
OP_E3 == 227
OP_E7 == 231
OP_E5 == 229
OP_B6 == 182
OP_EC == 236
OP_C3 == 195
OP_CA == 202
OP_C1 == 193
OP_C2 == 194
OP_C5 == 197
OP_C7 == 199
OP_CD == 205
OP_B1 == 177

DefaultTimeout == 5000
ButtonTimeout == 15000

(***************************************************************************)
(* Bounds of the model                                                     *)
(***************************************************************************)
TickMs == 1000
MaxWaits == 2
MaxBuf == 1
MaxQueue == 5
MaxFiles == 2

VARIABLES
  pendingReplies,        \* Map opcode -> handler; here opcode -> wait id, 0 = no entry
  timers,                \* wait ids whose setTimeout timer is armed
  waits,                 \* the promises returned by waitForReply, by wait id
  fileTransferBuffer,    \* bytes accumulated from the bulk-transfer channel
  fileTransferComplete,  \* the transfer-complete flag
  peripheral,            \* "connected" | "disconnected"
  last,                  \* the event handled by the last step: [kind, op]
  pc,                    \* call stack of the protocol workflow, innermost label first
  ret,                   \* outcome of the call that returned or threw last
  awaiting,              \* id of the promise the workflow awaits, 0 = none
  loc,                   \* arguments and local variables of the workflow
  sent,                  \* messages written to the command characteristic
  devQueue,              \* notifications the device has still to deliver
  heard,                 \* command notifications delivered since the last write
  stream,                \* all notifications delivered since the last write, in order
  registry               \* device registry entry of the connected device

corrVars == <<pendingReplies, timers, waits, fileTransferBuffer,
              fileTransferComplete, peripheral>>

flowVars == <<pc, ret, awaiting, loc, sent, devQueue, heard, stream, registry>>

vars == <<pendingReplies, timers, waits, fileTransferBuffer,
          fileTransferComplete, peripheral, last,
          pc, ret, awaiting, loc, sent, devQueue, heard, stream, registry>>

Event(k, o) == [kind |-> k, op |-> o]

Opcodes == {OP_C8, OP_B3, OP_50, OP_51, OP_E4, OP_53, OP_BD, OP_C2, OP_C7, OP_CD}

WaitIds == 1..MaxWaits

FreeWait == [op |-> 0, requested |-> 0, timeout |-> 0, elapsed |-> 0,
             state |-> "free", reason |-> "none", data |-> <<>>, calls |-> 0]

(***************************************************************************)
(* Promise settlement: resolve() and reject() act on a pending promise     *)
(* only; calls counts how often either was invoked on the promise.         *)
(***************************************************************************)
Settle(w, st, rs, d) ==
  IF w.state = "pending"
  THEN [w EXCEPT !.state = st, !.reason = rs, !.data = d, !.calls = @ + 1]
  ELSE [w EXCEPT !.calls = @ + 1]

NewPromise(op, requested, timeout) ==
  [op |-> op, requested |-> requested, timeout |-> timeout, elapsed |-> 0,
   state |-> "pending", reason |-> "none", data |-> <<>>, calls |-> 0]

(***************************************************************************)
(* WacomBLE.waitForReply(expectedOpcode, timeout): the promise executor.   *)
(* id names the promise created by the call; requested is the timeout the  *)
(* caller asked for, timeout the one handed to setTimeout.                 *)
(***************************************************************************)
waitForReply_NoBusyCheck(id, expectedOpcode, timeout, requested) ==
  /\ waits' = [waits EXCEPT ![id] = NewPromise(expectedOpcode, requested, timeout)]
  /\ timers' = timers \cup {id}
  /\ pendingReplies' = [pendingReplies EXCEPT ![expectedOpcode] = id]

waitForReply(id, expectedOpcode, timeout, requested) ==
  IF pendingReplies[expectedOpcode] # 0
  THEN /\ waits' = [waits EXCEPT ![id] =
                      Settle(NewPromise(expectedOpcode, requested, timeout),
                             "rejected", "busy", <<>>)]
       /\ UNCHANGED <<pendingReplies, timers>>
  ELSE /\ waits' = [waits EXCEPT ![id] = NewPromise(expectedOpcode, requested, timeout)]
       /\ timers' = timers \cup {id}
       /\ pendingReplies' = [pendingReplies EXCEPT ![expectedOpcode] = id]

(***************************************************************************)
(* The setTimeout callback of wait id: delete the table entry of the       *)
(* wait's opcode and reject the promise.                                   *)
(***************************************************************************)
timerCallback_KeepsEntry(id) ==
  /\ timers' = timers \ {id}
  /\ pendingReplies' = pendingReplies
  /\ waits' = [waits EXCEPT ![id] = Settle(@, "rejected", "timeout", <<>>)]

timerCallback_ClearsAll(id) ==
  /\ timers' = {}
  /\ pendingReplies' = [o \in Opcodes |-> 0]
  /\ waits' = [i \in WaitIds |->
                 IF i \in timers THEN Settle(waits[i], "rejected", "timeout", <<>>)
                 ELSE waits[i]]

timerCallback(id) ==
  /\ timers' = timers \ {id}
  /\ pendingReplies' = [pendingReplies EXCEPT ![waits[id].op] = 0]
  /\ waits' = [waits EXCEPT ![id] = Settle(@, "rejected", "timeout", <<>>)]

(***************************************************************************)
(* The handler stored in pendingReplies by wait id, called with the        *)
(* notification bytes: clearTimeout, delete the entry, resolve.            *)
(***************************************************************************)
replyHandler_KeepsEntry(id, data) ==
  /\ timers' = timers \ {id}
  /\ pendingReplies' = pendingReplies
  /\ waits' = [waits EXCEPT ![id] = Settle(@, "resolved", "none", data)]

replyHandler(id, data) ==
  /\ timers' = timers \ {id}
  /\ pendingReplies' = [pendingReplies EXCEPT ![waits[id].op] = 0]
  /\ waits' = [waits EXCEPT ![id] = Settle(@, "resolved", "none", data)]

(***************************************************************************)
(* WacomBLE.handleCommandResponse(data)                                    *)
(***************************************************************************)
Dispatch_AnyWaiter(opcode, data) ==
  IF opcode \in Opcodes /\ pendingReplies[opcode] # 0
  THEN replyHandler(pendingReplies[opcode], data)
  ELSE IF \E o \in Opcodes : pendingReplies[o] # 0
  THEN replyHandler(pendingReplies[CHOOSE o \in Opcodes : pendingReplies[o] # 0], data)
  ELSE UNCHANGED <<pendingReplies, timers, waits>>

Dispatch(opcode, data) ==
  IF opcode \in Opcodes /\ pendingReplies[opcode] # 0
  THEN replyHandler(pendingReplies[opcode], data)
  ELSE UNCHANGED <<pendingReplies, timers, waits>>

handleCommandResponse_OnlyWhenAwaited(data) ==
  IF Len(data) < 1
  THEN UNCHANGED <<pendingReplies, timers, waits, fileTransferBuffer, fileTransferComplete>>
  ELSE LET opcode == data[1]
           awaited == opcode \in Opcodes /\ pendingReplies[opcode] # 0 IN
       /\ Dispatch(opcode, data)
       /\ IF awaited /\ opcode = OP_C8 /\ Len(data) > 2 /\ data[3] = BYTE_BE
          THEN fileTransferBuffer' = <<>> /\ fileTransferComplete' = FALSE
          ELSE IF awaited /\ opcode = OP_C8 /\ Len(data) > 2 /\ data[3] = BYTE_ED
          THEN fileTransferComplete' = TRUE /\ UNCHANGED fileTransferBuffer
          ELSE UNCHANGED <<fileTransferBuffer, fileTransferComplete>>

handleCommandResponse(data) ==
  IF Len(data) < 1
  THEN UNCHANGED <<pendingReplies, timers, waits, fileTransferBuffer, fileTransferComplete>>
  ELSE LET opcode == data[1] IN
       IF opcode = OP_C8 /\ Len(data) > 2 /\ data[3] = BYTE_BE
       THEN /\ fileTransferBuffer' = <<>>
            /\ fileTransferComplete' = FALSE
            /\ Dispatch(opcode, data)
       ELSE IF opcode = OP_C8 /\ Len(data) > 2 /\ data[3] = BYTE_ED
       THEN /\ fileTransferComplete' = TRUE
            /\ UNCHANGED fileTransferBuffer
            /\ Dispatch(opcode, data)
       ELSE /\ UNCHANGED <<fileTransferBuffer, fileTransferComplete>>
            /\ Dispatch(opcode, data)

(***************************************************************************)
(* WacomBLE.handleFileTransferData(data)                                   *)
(***************************************************************************)
handleFileTransferData_Prepends(data) ==
  fileTransferBuffer' = data \o fileTransferBuffer

handleFileTransferData(data) ==
  fileTransferBuffer' = fileTransferBuffer \o data

(***************************************************************************)
(* Initial state: WacomBLE after its constructor and a completed BLE       *)
(* connection, with no wait registered.                                    *)
(***************************************************************************)
CorrInit ==
  /\ pendingReplies = [o \in Opcodes |-> 0]
  /\ timers = {}
  /\ waits = [i \in WaitIds |-> FreeWait]
  /\ fileTransferBuffer = <<>>
  /\ fileTransferComplete = FALSE
  /\ peripheral = "connected"
  /\ last = Event("none", 0)

FreeIds == {i \in WaitIds : waits[i].state = "free"}

NextId == CHOOSE i \in FreeIds : \A j \in FreeIds : i <= j

(***************************************************************************)
(* Events of the event loop                                                *)
(***************************************************************************)
\* The command-notify characteristic delivers data.
CommandNotify(data) ==
  /\ peripheral = "connected"
  /\ handleCommandResponse(data)
  /\ last' = IF Len(data) < 1 THEN Event("empty", 0)
              ELSE IF data[1] \in Opcodes /\ pendingReplies[data[1]] # 0
              THEN Event("reply", data[1])
              ELSE Event("unmatched", data[1])
  /\ UNCHANGED peripheral

\* The bulk-transfer characteristic delivers data.
BulkNotify(data) ==
  /\ peripheral = "connected"
  /\ Len(fileTransferBuffer) + Len(data) <= MaxBuf
  /\ handleFileTransferData(data)
  /\ last' = Event("bulk", 0)
  /\ UNCHANGED <<pendingReplies, timers, waits, fileTransferComplete, peripheral>>

\* The timer of wait id expires.
TimerFire(id) ==
  /\ id \in timers
  /\ waits[id].elapsed >= waits[id].timeout
  /\ timerCallback(id)
  /\ last' = Event("timeout", waits[id].op)
  /\ UNCHANGED <<fileTransferBuffer, fileTransferComplete, peripheral>>

\* TickMs milliseconds pass; an expired timer fires before more time passes.
Tick ==
  /\ timers # {}
  /\ \A i \in timers : waits[i].elapsed < waits[i].timeout
  /\ waits' = [i \in WaitIds |->
                 IF i \in timers THEN [waits[i] EXCEPT !.elapsed = @ + TickMs]
                 ELSE waits[i]]
  /\ last' = Event("tick", 0)
  /\ UNCHANGED <<pendingReplies, timers, fileTransferBuffer, fileTransferComplete, peripheral>>

\* WacomBLE.disconnect()
Disconnect ==
  /\ peripheral = "connected"
  /\ peripheral' = "disconnected"
  /\ last' = Event("disconnect", 0)
  /\ UNCHANGED <<pendingReplies, timers, waits, fileTransferBuffer, fileTransferComplete>>

(***************************************************************************)
(* The correlator driven by arbitrary callers of waitForReply              *)
(***************************************************************************)
CallerOpcodes == {OP_C8, OP_B3}

CallerTimeouts == {2 * TickMs}

CallerNotifications ==
  { <<>>, <<OP_C8, 1, BYTE_BE>>, <<OP_C8, 1, BYTE_ED>>, <<OP_C8, 0>>,
    <<OP_B3, 1, BYTE_BE>>, <<OP_50, 0>> }

BulkChunks == { <<7>> }

\* A caller invokes waitForReply(op, t) and keeps the promise.
CallWaitForReply(op, t) ==
  /\ FreeIds # {}
  /\ waitForReply(NextId, op, t, t)
  /\ last' = Event("wait", op)
  /\ UNCHANGED <<fileTransferBuffer, fileTransferComplete, peripheral>>

\* The caller has received the outcome of a settled promise and drops it.
Consume(id) ==
  /\ waits[id].state \in {"resolved", "rejected"}
  /\ id \notin timers
  /\ waits' = [waits EXCEPT ![id] = FreeWait]
  /\ last' = Event("consume", 0)
  /\ UNCHANGED <<pendingReplies, timers, fileTransferBuffer, fileTransferComplete, peripheral>>

NoRet == [kind |-> "none", val |-> "none", data |-> <<>>]

NoLoc == [op |-> "none", uuid |-> <<>>, isRegistration |-> FALSE,
          allowNoResponse |-> FALSE, isSpark |-> FALSE, protocolVersion |-> "none",
          timeout |-> 0, button |-> "none", arg |-> <<>>,
          fileCount |-> 0, i |-> 0, timestamp |-> <<>>, strokeData |-> <<>>,
          parsed |-> 0, notes |-> <<>>,
          data |-> <<>>, offset |-> 0, strokes |-> <<>>, currentStroke |-> <<>>,
          lastPoint |-> [x |-> 0, y |-> 0, p |-> 0],
          lastDelta |-> [x |-> 0, y |-> 0, p |-> 0],
          instance |-> <<>>, first |-> <<>>,
          strokeIdx |-> 0, pointIdx |-> 0, pathData |-> <<>>,
          currentStrokeWidth |-> <<>>, pathId |-> 0, svg |-> <<>>]

NoDevice == [uuid |-> "none", protocol |-> "none"]

\* No protocol workflow is running.
FlowIdle ==
  /\ pc = <<>>
  /\ ret = NoRet
  /\ awaiting = 0
  /\ loc = NoLoc
  /\ sent = <<>>
  /\ devQueue = <<>>
  /\ heard = {}
  /\ stream = <<>>
  /\ registry = NoDevice

Init == CorrInit /\ FlowIdle

Next ==
  \/ (\E op \in CallerOpcodes, t \in CallerTimeouts : CallWaitForReply(op, t)) /\ UNCHANGED flowVars
  \/ (\E d \in CallerNotifications : CommandNotify(d)) /\ UNCHANGED flowVars
  \/ (\E d \in BulkChunks : BulkNotify(d)) /\ UNCHANGED flowVars
  \/ (\E id \in WaitIds : TimerFire(id)) /\ UNCHANGED flowVars
  \/ Tick /\ UNCHANGED flowVars
  \/ (\E id \in WaitIds : Consume(id)) /\ UNCHANGED flowVars
  \/ Disconnect /\ UNCHANGED flowVars

Spec == Init /\ [][Next]_vars

\* The event loop keeps running: time passes and an expired timer's callback runs.
FairSpec ==
  /\ Spec
  /\ WF_vars(Tick /\ UNCHANGED flowVars)
  /\ \A id \in WaitIds : WF_vars(TimerFire(id) /\ UNCHANGED flowVars)

(***************************************************************************)
(* Reply correlator: claims                                                *)
(***************************************************************************)
PendingOn(o) == {i \in WaitIds : waits[i].state = "pending" /\ waits[i].op = o}

ArmedOn(o) == {i \in timers : waits[i].op = o}

\* The table, the pending promises and the armed timers describe the same waiters.
OneWaiterPerOpcode ==
  \A o \in Opcodes :
    /\ Cardinality(PendingOn(o)) <= 1
    /\ Cardinality(ArmedOn(o)) <= 1
    /\ PendingOn(o) = ArmedOn(o)
    /\ PendingOn(o) = IF pendingReplies[o] = 0 THEN {} ELSE {pendingReplies[o]}

\* A waitForReply(op) issued while op is awaited is rejected as busy at once and
\* changes neither the table, nor the timers, nor any other promise.
BusyRejected ==
  \A op \in CallerOpcodes, t \in CallerTimeouts :
    (CallWaitForReply(op, t) /\ pendingReplies[op] # 0) =>
      /\ waits'[NextId].state = "rejected"
      /\ waits'[NextId].reason = "busy"
      /\ pendingReplies' = pendingReplies
      /\ timers' = timers
      /\ \A i \in WaitIds \ {NextId} : waits'[i] = waits[i]

\* C1: in every reachable state there is at most one waiter per opcode, and a
\* waitForReply(op) issued while a waiter for op is pending is rejected immediately
\* with a busy error, is not queued, and leaves the pending waiter and its timer
\* unchanged.
C1_SingleWaiterBusy == [](OneWaiterPerOpcode) /\ [][BusyRejected]_vars

C1_Witness ==
  \E i, j \in WaitIds :
    /\ waits[i].state = "rejected" /\ waits[i].reason = "busy"
    /\ waits[j].state = "pending" /\ waits[j].op = waits[i].op
    /\ pendingReplies[waits[j].op] = j /\ j \in timers
    /\ last = Event("wait", waits[i].op)

\* A notification whose opcode is awaited removes that waiter and resolves it with
\* the bytes of the notification, and changes no other promise.
ReplyResolves ==
  \A d \in CallerNotifications :
    (CommandNotify(d) /\ Len(d) > 0 /\ d[1] \in Opcodes /\ pendingReplies[d[1]] # 0) =>
      LET id == pendingReplies[d[1]] IN
      /\ waits'[id].state = "resolved"
      /\ waits'[id].data = d
      /\ pendingReplies'[d[1]] = 0
      /\ id \notin timers'
      /\ \A i \in WaitIds \ {id} : waits'[i] = waits[i]

\* A promise is resolved only by a notification of its opcode that finds it in the
\* table, and rejected only at registration (busy) or by its own timer.
SettledBy ==
  \A i \in WaitIds :
    /\ (waits'[i].state = "resolved" /\ waits[i].state # "resolved") =>
          /\ waits[i].state = "pending"
          /\ last' = Event("reply", waits[i].op)
          /\ pendingReplies[waits[i].op] = i
    /\ (waits'[i].state = "rejected" /\ waits[i].state = "pending") =>
          /\ last' = Event("timeout", waits[i].op)
          /\ waits'[i].reason = "timeout"
    /\ (waits[i].state \in {"resolved", "rejected"} /\ waits'[i].state # "free") =>
          waits'[i] = waits[i]

\* resolve() or reject() is invoked at most once on every promise.
SettledOnce == \A i \in WaitIds : waits[i].calls <= 1

\* A notification whose opcode is not awaited resolves nothing.
UnmatchedResolvesNothing ==
  \A d \in CallerNotifications :
    (CommandNotify(d) /\ (Len(d) = 0 \/ d[1] \notin Opcodes \/ pendingReplies[d[1]] = 0)) =>
      UNCHANGED waits

\* C2: a notification with opcode op arriving while a waiter for op is pending
\* removes that waiter and resolves it with exactly the notification's bytes; every
\* wait is settled, and settled once (by a reply or by its timeout, never both); a second
\* notification of the same opcode before a new wait is registered resolves nothing.
C2_ResolveOnce ==
  /\ [][ReplyResolves /\ SettledBy /\ UnmatchedResolvesNothing]_vars
  /\ [](SettledOnce)
  /\ \A i \in WaitIds : (waits[i].state = "pending") ~> (waits[i].state # "pending")

C2_Witness ==
  \E i \in WaitIds :
    /\ waits[i].state = "resolved"
    /\ waits[i].data = <<OP_B3, 1, BYTE_BE>>
    /\ waits[i].calls = 1
    /\ pendingReplies[OP_B3] = 0
    /\ last = Event("unmatched", OP_B3)

\* C3: when the wait for op times out only the waiter for op is removed and
\* rejected; waiters of other opcodes, the bulk buffer, the transfer-complete flag
\* and the connection are unchanged, and a following waitForReply(op) is accepted.
TimeoutCancelsOnlyItsWait ==
  \A id \in WaitIds :
    TimerFire(id) =>
      LET op == waits[id].op IN
      /\ waits'[id].state = "rejected" /\ waits'[id].reason = "timeout"
      /\ \A i \in WaitIds \ {id} : waits'[i] = waits[i]
      /\ \A o \in Opcodes \ {op} : pendingReplies'[o] = pendingReplies[o]
      /\ timers' = timers \ {id}
      /\ UNCHANGED <<fileTransferBuffer, fileTransferComplete, peripheral>>
      /\ pendingReplies'[op] = 0

RetryAccepted ==
  \A op \in CallerOpcodes, t \in CallerTimeouts :
    (CallWaitForReply(op, t) /\ last = Event("timeout", op)) =>
      /\ waits'[NextId].state = "pending"
      /\ pendingReplies'[op] = NextId
      /\ NextId \in timers'

C3_TimeoutFrame == [][TimeoutCancelsOnlyItsWait /\ RetryAccepted]_vars

C3_Witness ==
  \E i, j \in WaitIds :
    /\ waits[i].state = "rejected" /\ waits[i].reason = "timeout"
    /\ last = Event("timeout", waits[i].op)
    /\ waits[j].state = "pending" /\ waits[j].op # waits[i].op
    /\ fileTransferBuffer # <<>>
    /\ fileTransferComplete
    /\ peripheral = "connected"

\* C5: a notification whose opcode has no pending waiter is dropped: the table,
\* the timers and the promises are unchanged, a wait registered later starts
\* pending (the notification was not kept for it), and unless the notification is
\* a 0xC8 signal carrying 0xBE or 0xED the buffer and the flag are unchanged.
IsLifecycle(d) == Len(d) > 2 /\ d[1] = OP_C8 /\ d[3] \in {BYTE_BE, BYTE_ED}

UnmatchedDropped ==
  \A d \in CallerNotifications :
    (CommandNotify(d) /\ Len(d) > 0 /\ (d[1] \notin Opcodes \/ pendingReplies[d[1]] = 0)) =>
      /\ UNCHANGED <<pendingReplies, timers, waits>>
      /\ ~IsLifecycle(d) => UNCHANGED <<fileTransferBuffer, fileTransferComplete>>

NotKeptForLaterWait ==
  \A op \in CallerOpcodes, t \in CallerTimeouts :
    (CallWaitForReply(op, t) /\ last = Event("unmatched", op)) =>
      /\ waits'[NextId].state = "pending"
      /\ waits'[NextId].data = <<>>

C5_UnmatchedDropped == [][UnmatchedDropped /\ NotKeptForLaterWait]_vars

C5_Witness ==
  /\ last = Event("unmatched", OP_B3)
  /\ pendingReplies[OP_B3] = 0
  /\ pendingReplies[OP_C8] # 0
  /\ fileTransferBuffer # <<>>
  /\ fileTransferComplete

\* C6: a 0xC8 notification is acted on whether or not 0xC8 is awaited: payload
\* 0xBE empties the buffer and clears the flag, payload 0xED sets the flag; when a
\* 0xC8 waiter is pending it is resolved by the same step, so the promise's
\* continuation runs with the change already made.
LifecycleIntercepted ==
  \A d \in CallerNotifications :
    (CommandNotify(d) /\ IsLifecycle(d)) =>
      /\ d[3] = BYTE_BE => (fileTransferBuffer' = <<>> /\ fileTransferComplete' = FALSE)
      /\ d[3] = BYTE_ED => (fileTransferComplete' = TRUE
                            /\ fileTransferBuffer' = fileTransferBuffer)
      /\ pendingReplies[OP_C8] # 0 =>
            /\ waits'[pendingReplies[OP_C8]].state = "resolved"
            /\ waits'[pendingReplies[OP_C8]].data = d

C6_LifecycleIntercepted == [][LifecycleIntercepted]_vars

C6_Witness ==
  /\ last = Event("unmatched", OP_C8)
  /\ fileTransferComplete
  /\ pendingReplies[OP_C8] = 0

(***************************************************************************)
(* Protocol workflows                                                      *)
(*                                                                         *)
(* The workflow is sequential async code.  pc holds its call stack; a      *)
(* label names the point where the innermost function continues.  At a     *)
(* label of AwaitLabels the code awaits a promise of waitForReply; at a    *)
(* label of TaskLabels it awaits the callback of a characteristic write or *)
(* of a setTimeout sleep.  Everywhere else the code is running            *)
(* synchronously or in a promise continuation, and no notification or      *)
(* timer callback runs until it reaches the next await.                    *)
(***************************************************************************)
Top == IF pc = <<>> THEN "done" ELSE Head(pc)

Ret(v) == [kind |-> "return", val |-> v, data |-> <<>>]

RetData(v, d) == [kind |-> "return", val |-> v, data |-> d]

Err(m) == [kind |-> "throw", val |-> m, data |-> <<>>]

\* WacomProtocol.parseMessage(data)
parseMessage_LengthFromEnd(data) ==
  IF Len(data) < 2
  THEN Err("Invalid message format")
  ELSE RetData("message", <<data[1], data[2], SubSeq(data, 3, Len(data) - data[2])>>)

Min(a, b) == IF a < b THEN a ELSE b

\* Array.prototype.slice(from, to) with 0 <= from <= to.
Slice(s, from, to) == SubSeq(s, from + 1, Min(to, Len(s)))

parseMessage(data) ==
  IF Len(data) < 2
  THEN Err("Invalid message format")
  ELSE RetData("message", <<data[1], data[2], Slice(data, 2, 2 + data[2])>>)

AwaitLabels ==
  { "connect.w50", "connect.w51", "connect.wB3",
    "registerWaitForButton.wE4", "registerWaitForButton.w53",
    "registerComplete.wB3", "setTime.wB3", "readTime.wBD", "selectTransferGatt.wB3",
    "getOldestFile.wStart", "getOldestFile.wEnd", "deleteOldestFile.wB3",
    "getFilesCount.wC2", "getOldestFileInfo.wC7", "getOldestFileInfo.wCD",
    "setPaperMode.wB3" }

TaskLabels ==
  { "connect.sent", "registerPressButton.sent", "registerComplete.sent", "setTime.sent",
    "readTime.sent", "selectTransferGatt.sent", "getOldestFile.sent",
    "getOldestFile.settle", "deleteOldestFile.sent", "getFilesCount.sent",
    "getOldestFileInfo.sent", "setPaperMode.sent", "downloadAllNotes.sleep" }

\* The awaited promise, and whether it is settled.
Awaited == waits[awaiting]

Settled == awaiting # 0 /\ Awaited.state \in {"resolved", "rejected"}

\* Notifications and timers are delivered only while the workflow is suspended.
Suspended ==
  \/ Top \in AwaitLabels /\ ~Settled
  \/ Top \in TaskLabels

\* WacomProtocol.createMessage(opcode, data)
createMessage(opcode, data) == <<opcode, Len(data)>> \o data

\* A UUID is a string of 12 hexadecimal digits, here the sequence of digit values.
NewUuid == <<10, 1, 11, 2, 12, 3, 13, 4, 14, 5, 15, 6>>

SavedUuid == <<0, 1, 0, 2, 0, 3, 0, 4, 0, 5, 0, 6>>

\* parseInt(uuid.substring(i, i + 2), 16) for i = 0, 2, 4, ...
uuidBytes(uuid) == [i \in 1..(Len(uuid) \div 2) |-> 16 * uuid[2 * i - 1] + uuid[2 * i]]

\* setTime: each field of the UTC time as two decimal digits, read as one hex byte.
Now == [year |-> 26, month |-> 11, day |-> 3, hour |-> 20, minute |-> 59, second |-> 7]

HexOfDecimal(v) == 16 * (v \div 10) + (v % 10)

\* timeBytes of setTime for the UTC time t.
TimeBytes(t) ==
  << HexOfDecimal(t.year), HexOfDecimal(t.month), HexOfDecimal(t.day),
     HexOfDecimal(t.hour), HexOfDecimal(t.minute), HexOfDecimal(t.second) >>

NowBytes == TimeBytes(Now)

\* Days from 1970-01-01 to the given day of the proleptic Gregorian calendar.
DaysFromCivil(y, m, d) ==
  LET yy == IF m <= 2 THEN y - 1 ELSE y
      era == yy \div 400
      yoe == yy - era * 400
      mp == IF m > 2 THEN m - 3 ELSE m + 9
      doy == ((153 * mp + 2) \div 5) + d - 1
      doe == yoe * 365 + (yoe \div 4) - (yoe \div 100) + doy
  IN  era * 146097 + doe - 719468

\* Math.floor(Date.UTC(year, month, day, hour, minute, second) / 1000), month counted
\* from 0; fields out of range carry over.  The value is the pair <<days, seconds of
\* the day>>, which stands for days * 86400 + seconds.
DateUTC(year, month, day, hour, minute, second) ==
  LET seconds == hour * 3600 + minute * 60 + second
  IN  << DaysFromCivil(year + (month \div 12), (month % 12) + 1, 1) + day - 1
           + (seconds \div 86400),
         seconds % 86400 >>

\* The Unix time of the UTC time t of the years 2000..2099.
UnixTime(t) == DateUTC(2000 + t.year, t.month - 1, t.day, t.hour, t.minute, t.second)

\* b.toString(16).padStart(2, '0')
HexDigits(b) == << b \div 16, b % 16 >>

\* parseInt(digits, 16)
ParseHex(digits) == 16 * digits[1] + digits[2]

\* getOldestFileInfo: the timestamp of a 0xcd reply of at least 8 bytes.
DecodeTimestamp(reply) ==
  LET f == [i \in 1..6 |-> ParseHex(HexDigits(Slice(reply, 2, 8)[i]))]
  IN  DateUTC(2000 + f[1], f[2] - 1, f[3], f[4], f[5], f[6])

\* The time stamp the device reports for its oldest file.
FileTime == [year |-> 25, month |-> 9, day |-> 8, hour |-> 7, minute |-> 6, second |-> 5]

InfoCountReply == <<OP_C7, 4, 0, 0, 1, 2>>

InfoTimeReply == <<OP_CD, 6>> \o TimeBytes(FileTime)

(***************************************************************************)
(* The device: it answers a command with one of the scripts below, a       *)
(* sequence of notifications delivered in order, each at any later time.   *)
(***************************************************************************)
Cmd(d) == [ch |-> "cmd", data |-> d]

Bulk(d) == [ch |-> "bulk", data |-> d]

\* 0xc2 replies of the device to the file count request: well-formed ones, a short
\* one and a long one.
CountReplies ==
  { <<OP_C2, 2, 5, 0>>, <<OP_C2, 2, 0, 1>>, <<OP_C2, 2, 255, 255>>, <<OP_C2, 2, 44, 1>>,
    <<OP_C2, 1, 5>>, <<OP_C2, 3, 1, 2, 9>> }

\* A download session finds at most MaxFiles files on the device.
SessionCountReplies == { <<OP_C2, 2, n, 0>> : n \in 0..MaxFiles }

StartMarker == Cmd(<<OP_C8, 1, BYTE_BE>>)

EndMarker == Cmd(<<OP_C8, 1, BYTE_ED>>)

\* The files of the device differ in their bytes: byte j of the file that the k-th
\* download command asks for.
FileByteOf(k, j) == 10 * k + j

FileByte(j) == FileByteOf(1 + Cardinality({n \in 1..Len(sent) : sent[n][1] = OP_C3}), j)

\* Files of the device: a Spark file of one stroke of one point, a Spark file that
\* is its signature and nothing else, and a file of a signature that is not known.
\* The files of two bytes below are cut before the end of the signature.
StrokeFileOf(k) ==
  <<98, 56, 98, 116, 255, 255, 255, FileByteOf(k, 0), 0, FileByteOf(k, 1), 0, 255, 3>>

StrokeFile == StrokeFileOf(1 + Cardinality({n \in 1..Len(sent) : sent[n][1] = OP_C3}))

NoStrokeFile == <<98, 56, 98, 116>>

UnknownFile == <<FileByte(1), FileByte(2), FileByte(3), FileByte(4)>>

StatusReplies(codes) == { <<Cmd(<<OP_B3, 1, r>>)>> : r \in codes }

DeviceScripts(msg) ==
  IF msg[1] = OP_E6
  THEN { <<>>, <<Cmd(<<OP_50, 0>>)>>, <<Cmd(<<OP_51, 0>>)>> }
       \cup { <<Cmd(<<OP_51, 1, r>>)>> : r \in {0, 1, 2, 3, 5} }
       \cup StatusReplies({0, 1, 2})
  ELSE IF msg[1] \in {OP_E3, OP_E7}
  THEN { <<>>, <<Cmd(<<OP_E4, 0>>)>>, <<Cmd(<<OP_53, 0>>)>> }
  ELSE IF msg[1] = OP_E5
  THEN { <<>> } \cup StatusReplies({0, 1})
  ELSE IF msg[1] = OP_B6 /\ msg[2] > 0
  THEN { <<>> } \cup StatusReplies({0, 1, 2})
  ELSE IF msg[1] = OP_B6
  THEN { <<>>, <<Cmd(<<OP_BD, 6>> \o NowBytes)>> }
  ELSE IF msg[1] = OP_EC
  THEN { <<>> } \cup StatusReplies({0, 2})
  ELSE IF msg[1] = OP_C5
  THEN { <<>>, <<Cmd(InfoCountReply)>>, <<Cmd(InfoTimeReply)>>,
         <<Cmd(InfoCountReply), Cmd(InfoTimeReply)>>,
         <<Cmd(InfoTimeReply), Cmd(InfoCountReply)>>,
         <<Cmd(<<OP_C7, 1, 0>>), Cmd(<<OP_CD, 1, 0>>)>> }
  ELSE IF msg[1] = OP_C1
  THEN { <<>> } \cup { <<Cmd(r)>> : r \in IF loc.op = "downloadAllNotes"
                                          THEN SessionCountReplies ELSE CountReplies }
  ELSE IF msg[1] = OP_CA
  THEN { <<>>, <<Cmd(<<OP_B3, 0>>)>> } \cup StatusReplies({0, 1, 2, 3})
  ELSE IF msg[1] = OP_C3
  THEN { <<>>,
         <<StartMarker, Bulk(<<FileByte(1)>>), Bulk(<<FileByte(2)>>), EndMarker>>,
         <<StartMarker, EndMarker>>,
         <<StartMarker, Bulk(StrokeFile), EndMarker>>,
         <<StartMarker, Bulk(NoStrokeFile), EndMarker>>,
         <<StartMarker, Bulk(UnknownFile), EndMarker>>,
         <<Cmd(<<OP_C8, 0>>), StartMarker, Bulk(<<FileByte(1)>>), EndMarker>>,
         <<StartMarker, Bulk(<<FileByte(1)>>), StartMarker>>,
         <<Bulk(<<FileByte(0)>>), StartMarker, Bulk(<<FileByte(1)>>), Bulk(<<FileByte(2)>>),
           EndMarker>>,
         <<StartMarker, Bulk(<<FileByte(1)>>), EndMarker, Bulk(<<FileByte(2)>>)>>,
         <<EndMarker>>,
         <<Cmd(<<OP_C8, 0>>)>> }
  ELSE IF msg[1] = OP_B1
  THEN { <<>> } \cup StatusReplies({0, 1, 2})
  ELSE { <<>> }

\* The device keeps at most MaxQueue notifications of earlier commands undelivered
\* when it queues the answer to a new one.
Fits(script) == devQueue = <<>> \/ Len(devQueue) + Len(script) <= MaxQueue

(***************************************************************************)
(* Building blocks of workflow steps                                       *)
(***************************************************************************)
\* Code that touches only the workflow's own control state.
Control(newpc, newret, newloc) ==
  /\ pc' = newpc
  /\ ret' = newret
  /\ loc' = newloc
  /\ last' = Event("code", 0)
  /\ UNCHANGED <<pendingReplies, timers, waits, fileTransferBuffer, fileTransferComplete,
                 peripheral, awaiting, sent, devQueue, heard, stream, registry>>

\* Leave the innermost function.
Return(r) == Control(Tail(pc), r, loc)

Goto(label) == Control(<<label>> \o Tail(pc), ret, loc)

\* Call a function: it starts at label callee and the caller continues at back.
Call(callee, back, newloc) == Control(<<callee, back>> \o Tail(pc), NoRet, newloc)

\* WacomBLE.sendCommand(msg): the write is issued and reaches the device.
WriteCore(msg, newpc) ==
  /\ sent' = Append(sent, msg)
  /\ \E script \in DeviceScripts(msg) :
       /\ Fits(script)
       /\ devQueue' = devQueue \o script
  /\ heard' = {}
  /\ stream' = <<>>
  /\ pc' = newpc
  /\ last' = Event("write", msg[1])
  /\ UNCHANGED <<pendingReplies, timers, waits, peripheral, ret, awaiting, loc, registry>>

Write(msg, newpc) ==
  /\ WriteCore(msg, newpc)
  /\ UNCHANGED <<fileTransferBuffer, fileTransferComplete>>

\* The transport handed to WacomProtocol: waitForReply: (opcode) => this.waitForReply(opcode)
transportWaitForReply(id, opcode, requested) ==
  waitForReply(id, opcode, DefaultTimeout, requested)

\* await this.transport.waitForReply(opcode, requested) from a point where no
\* promise is awaited.
Await(opcode, requested, newpc) ==
  /\ awaiting = 0
  /\ transportWaitForReply(NextId, opcode, requested)
  /\ awaiting' = NextId
  /\ pc' = newpc
  /\ last' = Event("wait", opcode)
  /\ UNCHANGED <<fileTransferBuffer, fileTransferComplete, peripheral,
                 ret, loc, sent, devQueue, heard, stream, registry>>

\* The continuation of the settled promise registers the next wait at once.
AwaitNext(opcode, requested, newpc) ==
  /\ Settled
  /\ transportWaitForReply(awaiting, opcode, requested)
  /\ pc' = newpc
  /\ last' = Event("wait", opcode)
  /\ UNCHANGED <<fileTransferBuffer, fileTransferComplete, peripheral,
                 ret, awaiting, loc, sent, devQueue, heard, stream, registry>>

\* The same, after the continuation has assigned its locals.
AwaitNextWith(opcode, requested, newpc, newloc) ==
  /\ Settled
  /\ transportWaitForReply(awaiting, opcode, requested)
  /\ pc' = newpc
  /\ loc' = newloc
  /\ last' = Event("wait", opcode)
  /\ UNCHANGED <<fileTransferBuffer, fileTransferComplete, peripheral,
                 ret, awaiting, sent, devQueue, heard, stream, registry>>

\* The continuation of the settled promise runs without awaiting another reply.
Resume(newpc, newret, newloc) ==
  /\ Settled
  /\ waits' = [waits EXCEPT ![awaiting] = FreeWait]
  /\ awaiting' = 0
  /\ pc' = newpc
  /\ ret' = newret
  /\ loc' = newloc
  /\ last' = Event("resume", 0)
  /\ UNCHANGED <<pendingReplies, timers, fileTransferBuffer, fileTransferComplete,
                 peripheral, sent, devQueue, heard, stream, registry>>

Resolved == Settled /\ Awaited.state = "resolved"

Rejected == Settled /\ Awaited.state = "rejected"

\* reply.length > 2 ? reply[2] : reply[1]
ReasonByte(reply) == IF Len(reply) > 2 THEN reply[3] ELSE reply[2]

\* The message of the Error a rejected waitForReply promise carries.
RejectMessage(w) ==
  IF w.reason = "busy" THEN "Already waiting for reply" ELSE "Timeout waiting for reply"

(***************************************************************************)
(* Events while the workflow is suspended                                  *)
(***************************************************************************)
\* The device delivers its next notification.
Deliver ==
  /\ Suspended
  /\ devQueue # <<>>
  /\ devQueue' = Tail(devQueue)
  /\ stream' = Append(stream, Head(devQueue))
  /\ LET n == Head(devQueue) IN
     IF n.ch = "cmd"
     THEN /\ CommandNotify(n.data)
          /\ heard' = heard \cup {[data |-> n.data, at |-> Top]}
     ELSE /\ handleFileTransferData(n.data)
          /\ last' = Event("bulk", 0)
          /\ UNCHANGED <<pendingReplies, timers, waits, fileTransferComplete,
                         peripheral, heard>>
  /\ UNCHANGED <<pc, ret, awaiting, loc, sent, registry>>

FlowTimerFire ==
  /\ Suspended
  /\ \E id \in WaitIds : TimerFire(id)
  /\ UNCHANGED flowVars

FlowTick ==
  /\ Suspended
  /\ Tick
  /\ UNCHANGED flowVars

(***************************************************************************)
(* WacomProtocol.connect(uuid, isRegistration, allowNoResponse)            *)
(***************************************************************************)
\* catch (e3): no usable reply to the CONNECT command
NoResponseOutcome_RegistrationFirst(isRegistration, allowNoResponse) ==
  IF isRegistration THEN Ret("needsRegistration")
  ELSE IF allowNoResponse THEN Ret("success")
  ELSE Err("No response from device")

NoResponseOutcome(isRegistration, allowNoResponse) ==
  IF allowNoResponse THEN Ret("success")
  ELSE IF isRegistration THEN Ret("needsRegistration")
  ELSE Err("No response from device")

\* The try block around waitForReply(0xb3): its result, or the exception it throws
\* into catch (e3).
ConnectB3Outcome(reply, isRegistration, allowNoResponse) ==
  IF Len(reply) > 2 /\ reply[3] # 0
  THEN IF reply[3] = 1 /\ isRegistration
       THEN Ret("needsRegistration")
       ELSE NoResponseOutcome(isRegistration, allowNoResponse)
  ELSE Ret("success")

\* The try block around waitForReply(0x51): TRUE when it returns needsRegistration,
\* FALSE when it throws into catch (e2).
Connect51Returns(reply, isRegistration) ==
  ReasonByte(reply) \in {1, 2} /\ isRegistration

connect ==
  \/ /\ Top = "connect"
     /\ Write(createMessage(OP_E6, uuidBytes(loc.uuid)), <<"connect.sent">> \o Tail(pc))
  \/ /\ Top = "connect.sent"
     /\ \/ Await(OP_50, 2000, <<"connect.w50">> \o Tail(pc))
        \/ Return(Err("write failed"))
  \/ /\ Top = "connect.w50"
     /\ \/ Resolved /\ Resume(Tail(pc), Ret("success"), loc)
        \/ Rejected /\ AwaitNext(OP_51, 2000, <<"connect.w51">> \o Tail(pc))
  \/ /\ Top = "connect.w51"
     /\ \/ /\ Resolved /\ Connect51Returns(Awaited.data, loc.isRegistration)
           /\ Resume(Tail(pc), Ret("needsRegistration"), loc)
        \/ /\ Resolved /\ ~Connect51Returns(Awaited.data, loc.isRegistration)
           /\ AwaitNext(OP_B3, 2000, <<"connect.wB3">> \o Tail(pc))
        \/ Rejected /\ AwaitNext(OP_B3, 2000, <<"connect.wB3">> \o Tail(pc))
  \/ /\ Top = "connect.wB3"
     /\ \/ /\ Resolved
           /\ Resume(Tail(pc),
                     ConnectB3Outcome(Awaited.data, loc.isRegistration, loc.allowNoResponse),
                     loc)
        \/ /\ Rejected
           /\ Resume(Tail(pc), NoResponseOutcome(loc.isRegistration, loc.allowNoResponse), loc)

(***************************************************************************)
(* WacomBLE.useSavedUUID(uuid)                                             *)
(***************************************************************************)
MessagesNoResponse == { "No response from device" }

MessagesInvalidOrAuth ==
  { "Device in invalid state",
    "Authorization failed - wrong UUID. Device may need re-registration." }

useSavedUUID ==
  \/ /\ Top = "useSavedUUID"
     /\ Call("connect", "useSavedUUID.connected",
             [loc EXCEPT !.isRegistration = FALSE, !.allowNoResponse = TRUE])
  \/ /\ Top = "useSavedUUID.connected"
     /\ IF ret.kind = "return"
        THEN IF ret.val = "success"
             THEN Return(Ret("true"))
             ELSE Return(Err("Authentication failed"))
        ELSE IF ret.val \in MessagesNoResponse
             THEN Return(Ret("true"))
             ELSE IF ret.val \in MessagesInvalidOrAuth
             THEN Return(Err("Could not authenticate"))
             ELSE Return(ret)

(***************************************************************************)
(* WacomProtocol.registerPressButton(uuid): uuid = null is loc.isSpark     *)
(***************************************************************************)
registerPressButton ==
  \/ /\ Top = "registerPressButton"
     /\ Write(IF loc.isSpark THEN createMessage(OP_E3, <<1>>)
              ELSE createMessage(OP_E7, uuidBytes(loc.uuid)),
              <<"registerPressButton.sent">> \o Tail(pc))
  \/ /\ Top = "registerPressButton.sent"
     /\ \/ Return(Ret("undefined"))
        \/ Return(Err("write failed"))

(***************************************************************************)
(* WacomProtocol.registerWaitForButton(timeout)                            *)
(***************************************************************************)
registerWaitForButton ==
  \/ /\ Top = "registerWaitForButton"
     /\ Await(OP_E4, loc.timeout, <<"registerWaitForButton.wE4">> \o Tail(pc))
  \/ /\ Top = "registerWaitForButton.wE4"
     /\ \/ Resolved /\ Resume(Tail(pc), Ret("SPARK"), loc)
        \/ Rejected /\ AwaitNext(OP_53, loc.timeout, <<"registerWaitForButton.w53">> \o Tail(pc))
  \/ /\ Top = "registerWaitForButton.w53"
     /\ \/ Resolved /\ Resume(Tail(pc), Ret("INTUOS_PRO"), loc)
        \/ Rejected /\ Resume(Tail(pc), Err("Timeout waiting for button press"), loc)

(***************************************************************************)
(* WacomProtocol.registerComplete()                                        *)
(***************************************************************************)
registerComplete ==
  \/ /\ Top = "registerComplete"
     /\ Write(createMessage(OP_E5, <<>>), <<"registerComplete.sent">> \o Tail(pc))
  \/ /\ Top = "registerComplete.sent"
     /\ \/ Await(OP_B3, 5000, <<"registerComplete.wB3">> \o Tail(pc))
        \/ Return(Err("write failed"))
  \/ /\ Top = "registerComplete.wB3"
     /\ \/ /\ Resolved
           /\ Resume(Tail(pc),
                     IF Len(Awaited.data) > 2 /\ Awaited.data[3] # 0
                     THEN Err("Registration complete failed")
                     ELSE Ret("undefined"),
                     loc)
        \/ Rejected /\ Resume(Tail(pc), Err(RejectMessage(Awaited)), loc)

(***************************************************************************)
(* WacomProtocol.setTime()                                                 *)
(***************************************************************************)
StatusOutcome(reply, invalidState, failed) ==
  IF Len(reply) > 2 /\ reply[3] # 0
  THEN IF reply[3] = 2 THEN Err(invalidState) ELSE Err(failed)
  ELSE Ret("undefined")

\* catch (error): a message that includes 'Timeout' is replaced.
TimeoutRenamed(w, renamed) ==
  IF RejectMessage(w) = "Timeout waiting for reply" THEN Err(renamed)
  ELSE Err(RejectMessage(w))

setTime ==
  \/ /\ Top = "setTime"
     /\ Write(createMessage(OP_B6, NowBytes), <<"setTime.sent">> \o Tail(pc))
  \/ /\ Top = "setTime.sent"
     /\ \/ Await(OP_B3, 5000, <<"setTime.wB3">> \o Tail(pc))
        \/ Return(Err("write failed"))
  \/ /\ Top = "setTime.wB3"
     /\ \/ /\ Resolved
           /\ Resume(Tail(pc),
                     StatusOutcome(Awaited.data, "Device in invalid state - cannot set time",
                                   "Set time failed"),
                     loc)
        \/ /\ Rejected
           /\ Resume(Tail(pc), TimeoutRenamed(Awaited, "Timeout setting device time - device may not be ready"), loc)

(***************************************************************************)
(* WacomProtocol.readTime()                                                *)
(***************************************************************************)
readTime ==
  \/ /\ Top = "readTime"
     /\ Write(createMessage(OP_B6, <<>>), <<"readTime.sent">> \o Tail(pc))
  \/ /\ Top = "readTime.sent"
     /\ \/ Await(OP_BD, 5000, <<"readTime.wBD">> \o Tail(pc))
        \/ Return(Err("write failed"))
  \/ /\ Top = "readTime.wBD"
     /\ \/ Resolved /\ Resume(Tail(pc), RetData("reply", Awaited.data), loc)
        \/ Rejected /\ Resume(Tail(pc), Ret("null"), loc)

(***************************************************************************)
(* WacomProtocol.selectTransferGatt()                                      *)
(***************************************************************************)
selectTransferGatt ==
  \/ /\ Top = "selectTransferGatt"
     /\ Write(createMessage(OP_EC, <<6, 0, 0, 0, 0, 0>>),
              <<"selectTransferGatt.sent">> \o Tail(pc))
  \/ /\ Top = "selectTransferGatt.sent"
     /\ \/ Await(OP_B3, 5000, <<"selectTransferGatt.wB3">> \o Tail(pc))
        \/ Return(Err("write failed"))
  \/ /\ Top = "selectTransferGatt.wB3"
     /\ \/ /\ Resolved
           /\ Resume(Tail(pc),
                     StatusOutcome(Awaited.data,
                                   "Device in invalid state - cannot configure transfer GATT",
                                   "Set file transfer reporting type failed"),
                     loc)
        \/ /\ Rejected
           /\ Resume(Tail(pc), TimeoutRenamed(Awaited, "Timeout configuring transfer GATT - device may not be ready"), loc)

(***************************************************************************)
(* WacomProtocol.getOldestFile()                                           *)
(***************************************************************************)
clearFileTransferBuffer_Keeps == fileTransferBuffer

\* transport.clearFileTransferBuffer(): the value the buffer is set to.
clearFileTransferBuffer == <<>>

\* reply.length < 3 || reply[2] !== marker is false
IsMarker_AnyLength(reply, marker) == Len(reply) < 3 \/ reply[3] = marker

IsMarker(reply, marker) == Len(reply) >= 3 /\ reply[3] = marker

getOldestFile ==
  \/ /\ Top = "getOldestFile"
     /\ fileTransferBuffer' = clearFileTransferBuffer
     /\ fileTransferComplete' = FALSE
     /\ WriteCore(createMessage(OP_C3, <<0>>), <<"getOldestFile.sent">> \o Tail(pc))
  \/ /\ Top = "getOldestFile.sent"
     /\ \/ Await(OP_C8, 5000, <<"getOldestFile.wStart">> \o Tail(pc))
        \/ Return(Err("write failed"))
  \/ /\ Top = "getOldestFile.wStart"
     /\ \/ /\ Resolved
           /\ IsMarker(Awaited.data, BYTE_BE)
           /\ AwaitNext(OP_C8, 30000, <<"getOldestFile.wEnd">> \o Tail(pc))
        \/ /\ Resolved
           /\ ~IsMarker(Awaited.data, BYTE_BE)
           /\ Resume(Tail(pc), Err("Unexpected file transfer start response"), loc)
        \/ Rejected /\ Resume(Tail(pc), Err(RejectMessage(Awaited)), loc)
  \/ /\ Top = "getOldestFile.wEnd"
     /\ \/ /\ Resolved
           /\ IsMarker(Awaited.data, BYTE_ED)
           /\ Resume(<<"getOldestFile.settle">> \o Tail(pc), ret, loc)
        \/ /\ Resolved
           /\ ~IsMarker(Awaited.data, BYTE_ED)
           /\ Resume(Tail(pc), Err("Unexpected file transfer end response"), loc)
        \/ Rejected /\ Resume(Tail(pc), Err(RejectMessage(Awaited)), loc)
  \/ /\ Top = "getOldestFile.settle"
     /\ ret' = RetData("fileData", fileTransferBuffer)
     /\ fileTransferBuffer' = clearFileTransferBuffer
     /\ fileTransferComplete' = FALSE
     /\ pc' = Tail(pc)
     /\ last' = Event("code", 0)
     /\ UNCHANGED <<pendingReplies, timers, waits, peripheral, awaiting, loc, sent,
                    devQueue, heard, stream, registry>>

(***************************************************************************)
(* WacomBLE.registerDevice()                                               *)
(***************************************************************************)
GeneratedUuids == { NewUuid }

\* try { await <optional step> } catch (error) { log }: registration goes on.
OptionalStep_NoCatch(r) == r.kind # "throw"

OptionalStep(r) == TRUE

\* try { await <step> ... } catch (error) { ...; throw error }: a step of the
\* handshake that throws ends the registration with its error.
RegistrationFailed_Never(r) == FALSE

RegistrationFailed(r) == r.kind = "throw"

\* config.registerDevice(address, uuid, protocolVersion), then return the entry.
SaveAndReturn ==
  /\ registry' = [uuid |-> loc.uuid, protocol |-> loc.protocolVersion]
  /\ pc' = Tail(pc)
  /\ ret' = Ret("registered")
  /\ last' = Event("code", 0)
  /\ UNCHANGED <<pendingReplies, timers, waits, fileTransferBuffer, fileTransferComplete,
                 peripheral, awaiting, loc, sent, devQueue, heard, stream>>

getDevice_Forgets == NoDevice

\* config.getDevice(address) for the address of the connected device
getDevice == registry

registerDevice ==
  \/ /\ Top = "registerDevice"
     /\ IF getDevice # NoDevice
        THEN Return(RetData("existing", getDevice.uuid))
        ELSE \E u \in GeneratedUuids :
               Call("connect", "registerDevice.connected",
                    [loc EXCEPT !.uuid = u, !.protocolVersion = "SPARK",
                                !.isRegistration = TRUE, !.allowNoResponse = FALSE])
  \/ /\ Top = "registerDevice.connected"
     /\ IF RegistrationFailed(ret)
        THEN Return(ret)
        ELSE Call("registerPressButton", "registerDevice.pressed", loc)
  \/ /\ Top = "registerDevice.pressed"
     /\ IF RegistrationFailed(ret)
        THEN Return(ret)
        ELSE Call("registerWaitForButton", "registerDevice.button",
                  [loc EXCEPT !.timeout = ButtonTimeout])
  \/ /\ Top = "registerDevice.button"
     /\ IF RegistrationFailed(ret)
        THEN Control(Tail(pc), ret, [loc EXCEPT !.button = "timeout"])
        ELSE IF loc.isSpark
        THEN Call("registerComplete", "registerDevice.completed",
                  [loc EXCEPT !.button = "confirmed", !.protocolVersion = ret.val])
        ELSE Call("setTime", "registerDevice.timeSet",
                  [loc EXCEPT !.button = "confirmed",
                              !.protocolVersion = IF ret.val = "INTUOS_PRO"
                                                  THEN "INTUOS_PRO" ELSE "SLATE"])
  \/ /\ Top = "registerDevice.completed"
     /\ IF RegistrationFailed(ret) THEN Return(ret) ELSE SaveAndReturn
  \/ /\ Top = "registerDevice.timeSet"
     /\ IF OptionalStep(ret)
        THEN Call("readTime", "registerDevice.timeRead", loc)
        ELSE Return(ret)
  \/ /\ Top = "registerDevice.timeRead"
     /\ IF OptionalStep(ret)
        THEN Call("selectTransferGatt", "registerDevice.gattSet", loc)
        ELSE Return(ret)
  \/ /\ Top = "registerDevice.gattSet"
     /\ IF OptionalStep(ret) THEN SaveAndReturn ELSE Return(ret)

(***************************************************************************)
(* WacomProtocol.deleteOldestFile()                                        *)
(***************************************************************************)
\* String.prototype.includes: a case-sensitive substring test.
Includes(s, part) ==
  \E i \in 1..(Len(s) - Len(part) + 1) : SubSeq(s, i, i + Len(part) - 1) = part

\* catch (e): an error whose message includes 'timeout' or 'No response' is
\* tolerated, any other is thrown again.
DeleteCaught(e) ==
  IF Includes(e.val, "timeout") \/ Includes(e.val, "No response")
  THEN Ret("undefined")
  ELSE e

DeleteReplyOutcome_OnlyZero(reply) ==
  IF Len(reply) < 3 \/ reply[3] # 0
  THEN DeleteCaught(Err("Delete failed with error code"))
  ELSE Ret("undefined")

\* The try block after the 0xb3 reply has arrived.
DeleteReplyOutcome(reply) ==
  IF Len(reply) < 3 \/ reply[3] # 0
  THEN IF ReasonByte(reply) \in {1, 2}
       THEN Ret("undefined")
       ELSE DeleteCaught(Err("Delete failed with error code"))
  ELSE Ret("undefined")

deleteOldestFile ==
  \/ /\ Top = "deleteOldestFile"
     /\ Write(createMessage(OP_CA, <<0>>), <<"deleteOldestFile.sent">> \o Tail(pc))
  \/ /\ Top = "deleteOldestFile.sent"
     /\ \/ Await(OP_B3, 2000, <<"deleteOldestFile.wB3">> \o Tail(pc))
        \/ Return(Err("write failed"))
  \/ /\ Top = "deleteOldestFile.wB3"
     /\ \/ Resolved /\ Resume(Tail(pc), DeleteReplyOutcome(Awaited.data), loc)
        \/ Rejected /\ Resume(Tail(pc), DeleteCaught(Err(RejectMessage(Awaited))), loc)

(***************************************************************************)
(* WacomProtocol.getFilesCount()                                           *)
(***************************************************************************)
\* JavaScript bitwise operators work on 32-bit two's complement integers.
MinInt32 == -2147483647 - 1

\* The low 31 bits of a 32-bit integer.
Low31(x) == IF x < 0 THEN x - MinInt32 ELSE x

RECURSIVE BitOrUnsigned(_, _)
BitOrUnsigned(a, b) ==
  IF a = 0 THEN b
  ELSE IF b = 0 THEN a
  ELSE (IF a % 2 = 1 \/ b % 2 = 1 THEN 1 ELSE 0) + 2 * BitOrUnsigned(a \div 2, b \div 2)

\* a | b
BitOr(a, b) ==
  LET low == BitOrUnsigned(Low31(a), Low31(b))
  IN  IF a < 0 \/ b < 0 THEN MinInt32 + low ELSE low

\* a << n for a >= 0 and 2 <= n <= 30: the bits shifted beyond bit 31 are lost
\* and bit 31 is the sign.
ShiftLeft(a, n) ==
  LET kept == a % 2^(32 - n)
  IN  IF kept >= 2^(31 - n) THEN (kept - 2^(32 - n)) * 2^n ELSE kept * 2^n

FilesCount_BigEndian(reply) == BitOr(reply[4], ShiftLeft(reply[3], 8))

\* count = reply[2] | (reply[3] << 8)
FilesCount(reply) == BitOr(reply[3], ShiftLeft(reply[4], 8))

getFilesCount ==
  \/ /\ Top = "getFilesCount"
     /\ Write(createMessage(OP_C1, <<0>>), <<"getFilesCount.sent">> \o Tail(pc))
  \/ /\ Top = "getFilesCount.sent"
     /\ \/ Await(OP_C2, 5000, <<"getFilesCount.wC2">> \o Tail(pc))
        \/ Return(Err("write failed"))
  \/ /\ Top = "getFilesCount.wC2"
     /\ \/ /\ Resolved
           /\ Resume(Tail(pc),
                     IF Len(Awaited.data) < 4
                     THEN Err("Invalid reply length for file count")
                     ELSE RetData("count", <<FilesCount(Awaited.data)>>),
                     loc)
        \/ Rejected /\ Resume(Tail(pc), Err(RejectMessage(Awaited)), loc)

(***************************************************************************)
(* WacomProtocol.getOldestFileInfo(): loc.arg holds the local count        *)
(***************************************************************************)
\* count = (reply1[2] << 24) | (reply1[3] << 16) | (reply1[4] << 8) | reply1[5]
InfoCount(reply) ==
  BitOr(BitOr(BitOr(ShiftLeft(reply[3], 24), ShiftLeft(reply[4], 16)),
              ShiftLeft(reply[5], 8)),
        reply[6])

getOldestFileInfo ==
  \/ /\ Top = "getOldestFileInfo"
     /\ Write(createMessage(OP_C5, <<0>>), <<"getOldestFileInfo.sent">> \o Tail(pc))
  \/ /\ Top = "getOldestFileInfo.sent"
     /\ \/ Await(OP_C7, 2000, <<"getOldestFileInfo.wC7">> \o Tail(pc))
        \/ Return(Err("write failed"))
  \/ /\ Top = "getOldestFileInfo.wC7"
     /\ AwaitNextWith(OP_CD, 2000, <<"getOldestFileInfo.wCD">> \o Tail(pc),
                      [loc EXCEPT !.arg =
                         IF Resolved /\ Len(Awaited.data) >= 6
                         THEN <<InfoCount(Awaited.data)>>
                         ELSE <<0>>])
  \/ /\ Top = "getOldestFileInfo.wCD"
     /\ Settled
     /\ Resume(Tail(pc),
               RetData("info",
                       << loc.arg[1],
                          IF Rejected THEN UnixTime(Now)
                          ELSE IF Len(Awaited.data) >= 8 THEN DecodeTimestamp(Awaited.data)
                          ELSE <<>> >>),
               loc)

(***************************************************************************)
(* WacomProtocol.setPaperMode()                                            *)
(***************************************************************************)
setPaperMode ==
  \/ /\ Top = "setPaperMode"
     /\ Write(createMessage(OP_B1, <<1>>), <<"setPaperMode.sent">> \o Tail(pc))
  \/ /\ Top = "setPaperMode.sent"
     /\ \/ Await(OP_B3, 5000, <<"setPaperMode.wB3">> \o Tail(pc))
        \/ Return(Err("write failed"))
  \/ /\ Top = "setPaperMode.wB3"
     /\ \/ /\ Resolved
           /\ Resume(Tail(pc),
                     StatusOutcome(Awaited.data,
                                   "Device in invalid state - make sure the LED is blue",
                                   "Failed to set paper mode"),
                     loc)
        \/ Rejected /\ Resume(Tail(pc), Err(RejectMessage(Awaited)), loc)

(***************************************************************************)
(* StrokeParser: the packet scanner of the direct stroke stream            *)
(***************************************************************************)
\* The device dimensions set by the constructor.
pointSize == 10

pressure == 1023

sparkSig == <<98, 56, 98, 116>>

intuosSig == <<103, 130, 105, 101>>

\* data.slice(offset)
SliceFrom(data, offset) == SubSeq(data, offset + 1, Len(data))

\* s.every(b => b === v)
Every(s, v) == \A k \in 1..Len(s) : s[k] = v

\* n times the element b
Repeat(b, n) == [k \in 1..n |-> b]

countBits(byte) == Cardinality({i \in 0..7 : (byte \div 2^i) % 2 = 1})

\* (byte << 24) >> 24
SignExtend8_Unsigned(byte) == byte

SignExtend8(byte) == IF byte >= 128 THEN byte - 256 ELSE byte

identifyPacketType(data) ==
  IF Len(data) < 1 THEN "UNKNOWN"
  ELSE
    LET header == data[1]
        payload == Slice(data, 1, 1 + countBits(header))
    IN  IF Len(data) >= 4 /\ SubSeq(data, 1, 4) \in {sparkSig, intuosSig}
          THEN "FILE_HEADER"
        ELSE IF Len(payload) >= 8 /\ Every(SubSeq(payload, 1, 8), 255)
          THEN "EOF"
        ELSE IF Len(data) >= 7 /\ data[1] = 252 /\ Every(SubSeq(data, 2, 7), 255)
          THEN "STROKE_END"
        ELSE IF Len(payload) >= 2 /\ payload[1] = 221 /\ payload[2] = 221
          THEN "LOST_POINT"
        ELSE IF header % 4 = 0
          THEN "DELTA"
        ELSE IF Len(payload) > 0 /\ payload[1] = 250
          THEN "STROKE_HEADER"
        ELSE IF Len(payload) >= 3 /\ payload[1] = 255 /\ payload[2] = 238
                /\ payload[3] = 238
          THEN "STROKE_HEADER"
        ELSE IF Len(payload) >= 2 /\ payload[1] = 255 /\ payload[2] = 255
          THEN "POINT"
        ELSE "UNKNOWN"

\* A value the packet does not carry is undefined: the empty sequence here, and
\* <<v>> for the value v.
Undefined == <<>>

\* One coordinate of parsePoint: what the two mask bits select, read at pos.
ReadCoordinate(data, mask, pos) ==
  IF mask = 3 /\ Len(data) >= pos + 2
    THEN [abs |-> <<data[pos + 1] + 256 * data[pos + 2]>>, delta |-> Undefined,
          pos |-> pos + 2]
  ELSE IF mask = 2 /\ Len(data) >= pos + 1
    THEN [abs |-> Undefined, delta |-> <<SignExtend8(data[pos + 1])>>,
          pos |-> pos + 1]
  ELSE [abs |-> Undefined, delta |-> Undefined, pos |-> pos]

\* data[1] === 0xff && data[2] === 0xff
HasPointMarker(data) == Len(data) > 2 /\ data[2] = 255 /\ data[3] = 255

parsePoint(data) ==
  LET isPoint == HasPointMarker(data)
      header == IF isPoint THEN data[1] - (data[1] % 4) ELSE data[1]
      xmask == (header \div 4) % 4
      ymask == (header \div 16) % 4
      pmask == (header \div 64) % 4
      cx == ReadCoordinate(data, xmask, IF isPoint THEN 3 ELSE 1)
      cy == ReadCoordinate(data, ymask, cx.pos)
      cp == ReadCoordinate(data, pmask, cy.pos)
  IN  [x |-> cx.abs, y |-> cy.abs, p |-> cp.abs,
       dx |-> cx.delta, dy |-> cy.delta, dp |-> cp.delta]

getMaskSize(mask) == IF mask = 2 THEN 1 ELSE IF mask = 3 THEN 2 ELSE 0

getPointSize(data) ==
  LET header == data[1]
  IN  (IF HasPointMarker(data) THEN 3 ELSE 1)
      + getMaskSize((header \div 4) % 4)
      + getMaskSize((header \div 16) % 4)
      + getMaskSize((header \div 64) % 4)

getStrokeEndSize(data) == 1 + countBits(data[1])

getStrokeHeaderSize(data) ==
  LET nbytes == countBits(data[1])
      payload == Slice(data, 1, 1 + nbytes)
      flags == IF Len(payload) > 1 THEN payload[2] ELSE 0
  IN  IF Len(payload) > 0 /\ payload[1] = 250 /\ flags >= 128
      THEN 1 + nbytes + 9
      ELSE 1 + nbytes

getLostPointSize(data) == 1 + countBits(data[1])

getUnknownPacketSize_Stuck(data) == 0
getUnknownPacketSize(data) == 1 + countBits(data[1])

\* Math.floor((p * 0x10000) / this.pressure), with 0x10000 = 64 * 1023 + 64.
ScalePressure(p) == 64 * p + ((64 * p) \div pressure)

\* One axis of a point or delta packet: the last absolute value and the cumulative
\* delta after the packet.
Accumulate_LastDeltaOnly(lastAbs, lastD, abs, delta) ==
  IF delta # Undefined THEN [v |-> lastAbs, d |-> delta[1]]
  ELSE IF abs # Undefined THEN [v |-> abs[1], d |-> 0]
  ELSE [v |-> lastAbs, d |-> lastD]

Accumulate(lastAbs, lastD, abs, delta) ==
  IF delta # Undefined THEN [v |-> lastAbs, d |-> lastD + delta[1]]
  ELSE IF abs # Undefined THEN [v |-> abs[1], d |-> 0]
  ELSE [v |-> lastAbs, d |-> lastD]

ZeroPoint == [x |-> 0, y |-> 0, p |-> 0]

\* lastDelta = { x: 0, y: 0, p: 0 } at a stroke header
ResetDelta_Keeps(lastDelta) == lastDelta

ResetDelta(lastDelta) == ZeroPoint

\* if (currentStroke.length > 0) strokes.push(currentStroke)
PushStroke_Always(strokes, currentStroke) == Append(strokes, currentStroke)

PushStroke_Drops(strokes, currentStroke) == strokes

PushStroke(strokes, currentStroke) ==
  IF Len(currentStroke) > 0 THEN Append(strokes, currentStroke) ELSE strokes

\* The locals of parseStrokes(data) when the loop is entered.
ScanStart(l, data) ==
  [l EXCEPT !.data = data, !.offset = 0, !.strokes = <<>>, !.currentStroke = <<>>,
            !.lastPoint = ZeroPoint, !.lastDelta = ZeroPoint]

\* The packet the loop looks at.
PacketType(l) == identifyPacketType(SliceFrom(l.data, l.offset))

\* The loop of parseStrokes ends: the data is used up or the packet is EOF.
ScanDone(l) == l.offset >= Len(l.data) \/ PacketType(l) = "EOF"

\* What parseStrokes returns when the loop ends.
ScanResult_NoFlush(l) == l.strokes

ScanResult(l) ==
  IF l.offset < Len(l.data) THEN PushStroke(l.strokes, l.currentStroke) ELSE l.strokes

\* One iteration of the loop of parseStrokes that does not end it.
ScanStep(l) ==
  LET rest == SliceFrom(l.data, l.offset)
      packetType == identifyPacketType(rest)
  IN  IF packetType = "STROKE_END"
        THEN [l EXCEPT !.strokes = PushStroke(l.strokes, l.currentStroke),
                       !.currentStroke = <<>>,
                       !.offset = @ + getStrokeEndSize(rest)]
      ELSE IF packetType = "LOST_POINT"
        THEN [l EXCEPT !.offset = @ + getLostPointSize(rest)]
      ELSE IF packetType = "STROKE_HEADER"
        THEN [l EXCEPT !.strokes = PushStroke(l.strokes, l.currentStroke),
                       !.currentStroke = <<>>,
                       !.lastDelta = ResetDelta(l.lastDelta),
                       !.offset = @ + getStrokeHeaderSize(rest)]
      ELSE IF packetType \in {"POINT", "DELTA"}
        THEN LET result == parsePoint(rest)
                 ax == Accumulate(l.lastPoint.x, l.lastDelta.x, result.x, result.dx)
                 ay == Accumulate(l.lastPoint.y, l.lastDelta.y, result.y, result.dy)
                 ap == Accumulate(l.lastPoint.p, l.lastDelta.p, result.p, result.dp)
                 finalPointRaw == [x |-> ax.v + ax.d, y |-> ay.v + ay.d,
                                   p |-> ap.v + ap.d]
                 finalPoint == [x |-> finalPointRaw.x * pointSize,
                                y |-> finalPointRaw.y * pointSize,
                                p |-> ScalePressure(finalPointRaw.p)]
             IN  [l EXCEPT !.lastPoint = finalPointRaw,
                           !.lastDelta = [x |-> ax.d, y |-> ay.d, p |-> ap.d],
                           !.currentStroke = Append(@, finalPoint),
                           !.offset = @ + getPointSize(rest)]
      ELSE [l EXCEPT !.offset = @ + getUnknownPacketSize(rest)]

RECURSIVE ScanAll(_)
ScanAll(l) == IF ScanDone(l) THEN ScanResult(l) ELSE ScanAll(ScanStep(l))

\* strokes = this.parseStrokes(data)
parseStrokes(data) == ScanAll(ScanStart(NoLoc, data))

(***************************************************************************)
(* SmartPadDecompressor                                                    *)
(***************************************************************************)
\* this.data[index] | 0: a byte of the data, 0 beyond its end.
ByteAt(data, index) == IF index < Len(data) THEN data[index + 1] ELSE 0

\* value & 0xffff
Low16(value) == value % 65536

\* (value << 16) >> 16
signExtend16(value) == IF Low16(value) >= 32768 THEN Low16(value) - 65536 ELSE Low16(value)

\* ((msb << 8) | lsb) & 0xffff
readShort(data, index) == ByteAt(data, index) + 256 * ByteAt(data, index + 1)

\* The constructor: workBuffer = new Int32Array(12), indexed from 0.
NewDecompressor == [k \in 0..11 |-> 0]

\* new SmartPadDecompressor(data) in the static decompress: previous is the
\* instance of the call before.
SmartPadDecompressor_Reused(previous) ==
  IF previous = <<>> THEN NewDecompressor ELSE previous

SmartPadDecompressor(previous) == NewDecompressor

\* Lanes i..3 of one unit. d holds workBuffer, readIndex and output; predict and
\* bits are those of the unit; t is <<t0, t1, t2>>.
RECURSIVE DecompressLanes(_, _, _, _, _, _)
DecompressLanes(i, d, data, predict, bits, t) ==
  IF i > 3 THEN d
  ELSE
    LET literal == readShort(data, d.readIndex)
        value ==
          IF bits[i] = 2
            THEN Low16(predict[i] + SignExtend8(ByteAt(data, d.readIndex)))
          ELSE IF bits[i] = 3 THEN literal
          ELSE predict[i]
        history ==
          IF bits[i] = 3
          THEN [d.workBuffer EXCEPT ![t[3] + i] = signExtend16(literal),
                                    ![t[2] + i] = signExtend16(literal)]
          ELSE d.workBuffer
    IN  DecompressLanes(i + 1,
          [workBuffer |-> [history EXCEPT ![t[1] + i] = signExtend16(value)],
           readIndex |-> d.readIndex + (IF bits[i] = 2 THEN 1
                                        ELSE IF bits[i] = 3 THEN 2 ELSE 0),
           output |-> d.output \o << value % 256, value \div 256 >>],
          data, predict, bits, t)

\* The loop of decompressFrom: one unit per tag byte until the data is used up.
RECURSIVE DecompressUnits(_, _, _)
DecompressUnits(d, data, t) ==
  IF d.readIndex >= Len(data) THEN d
  ELSE
    LET dataTag == data[d.readIndex + 1]
        bits == [i \in 0..3 |-> (dataTag \div 4^i) % 4]
        predict == [i \in 0..3 |->
                      Low16(2 * Low16(d.workBuffer[t[2] + i])
                            - Low16(d.workBuffer[t[3] + i]))]
        unit == DecompressLanes(0, [d EXCEPT !.readIndex = @ + 1], data, predict, bits, t)
    IN  DecompressUnits(unit, data, << t[3], t[1], t[2] >>)

\* instance.decompressFrom(readIndex): the output and the work buffer it leaves.
decompressFrom(workBuffer, data, readIndex) ==
  DecompressUnits([workBuffer |-> workBuffer, readIndex |-> readIndex, output |-> <<>>],
                  data, <<0, 4, 8>>)

\* SmartPadDecompressor.decompress(data, offset)
decompress(data, offset) ==
  decompressFrom(SmartPadDecompressor(<<>>), data, offset).output

(***************************************************************************)
(* The parsers of the decompressed container and StrokeParser.parse        *)
(***************************************************************************)
\* ByteReader.readUShort at index
readUShort(bytes, index) == bytes[index + 1] + 256 * bytes[index + 2]

\* A path is the sequence of its points; what a parser gives is its paths, or the
\* fact that it has thrown.
Paths(paths) == [thrown |-> FALSE, paths |-> paths]

ParserThrown == [thrown |-> TRUE, paths |-> <<>>]

ValidPoint(bytes, index) ==
  [x |-> readUShort(bytes, index), y |-> readUShort(bytes, index + 2),
   p |-> readUShort(bytes, index + 4), valid |-> TRUE]

LostPoint == [x |-> 65535, y |-> 65535, p |-> 65535, valid |-> FALSE]

\* x === 0xffff && y === 0xffff && p === 0xffff
IsStrokeBreak(point) == point.x = 65535 /\ point.y = 65535 /\ point.p = 65535

\* currentStroke.points.push(...) on the stroke pushed to paths last
PushPoints(paths, points) == [paths EXCEPT ![Len(paths)] = @ \o points]

\* if (!currentStroke) currentStroke = this.createStrokeForMissing(paths)
EnsureStroke(paths, open) == IF open THEN paths ELSE Append(paths, <<>>)

\* The loop of SmartPadFileParserColumbia.parse with the reader at index; open
\* tells that currentStroke is not null.
RECURSIVE ColumbiaRecords(_, _, _, _)
ColumbiaRecords(data, index, paths, open) ==
  IF Len(data) - index < 2 THEN Paths(paths)
  ELSE
    LET value == readUShort(data, index)
        at == index + 2
        available == Len(data) - at >= 6
    IN  IF value = 65535
          THEN IF ~available THEN ParserThrown
               ELSE IF IsStrokeBreak(ValidPoint(data, at))
                 THEN ColumbiaRecords(data, at + 6, paths, FALSE)
               ELSE ColumbiaRecords(data, at + 6,
                      PushPoints(EnsureStroke(paths, open), <<ValidPoint(data, at)>>),
                      TRUE)
        ELSE IF value = 61183
          THEN IF ~available THEN ParserThrown
               ELSE ColumbiaRecords(data, at + 6, Append(paths, <<>>), TRUE)
        ELSE IF value = 56799
          THEN IF ~available THEN ParserThrown
               ELSE ColumbiaRecords(data, at + 6,
                      PushPoints(EnsureStroke(paths, open),
                                 Repeat(LostPoint, readUShort(data, at + 4))),
                      TRUE)
        ELSE Paths(paths)

\* SmartPadFileParserColumbia.parse(data, fileTimestamp)
SmartPadFileParserColumbia(data) ==
  IF Len(data) = 0 \/ Len(data) % 8 # 0 THEN ParserThrown
  ELSE ColumbiaRecords(data, 0, <<>>, FALSE)

\* The loop of SmartPadFileParser020102.parse with the reader at index.
RECURSIVE TaggedRecords(_, _, _, _)
TaggedRecords(data, index, paths, open) ==
  IF Len(data) - index <= 0 THEN Paths(paths)
  ELSE
    LET tag == data[index + 1]
        at == index + 1
        available == Len(data) - at >= 7
    IN  IF tag = 255
          THEN IF ~available \/ data[at + 1] # 255 THEN ParserThrown
               ELSE IF IsStrokeBreak(ValidPoint(data, at + 1))
                 THEN TaggedRecords(data, at + 7, paths, FALSE)
               ELSE IF ~open THEN ParserThrown
               ELSE TaggedRecords(data, at + 7,
                      PushPoints(paths, <<ValidPoint(data, at + 1)>>), TRUE)
        ELSE IF tag = 250
          THEN IF ~available THEN ParserThrown
               ELSE IF data[at + 1] >= 128
                 THEN IF Len(data) - (at + 7) < 8 THEN ParserThrown
                      ELSE TaggedRecords(data, at + 15, Append(paths, <<>>), TRUE)
               ELSE TaggedRecords(data, at + 7, Append(paths, <<>>), TRUE)
        ELSE IF tag = 221
          THEN IF ~available \/ data[at + 1] # 221 THEN ParserThrown
               ELSE TaggedRecords(data, at + 7,
                      IF open
                      THEN PushPoints(paths, Repeat(LostPoint, readUShort(data, at + 1)))
                      ELSE paths,
                      open)
        ELSE Paths(paths)

\* SmartPadFileParser020102.parse(data)
SmartPadFileParser020102(data) ==
  IF Len(data) = 0 \/ Len(data) % 8 # 0 THEN ParserThrown
  ELSE TaggedRecords(data, 0, <<>>, FALSE)

\* A function that may return null: <<>> is null and <<v>> is the value v.
Null == <<>>

\* Math.max(0, Math.min(0xffff, Math.floor((point.p * 0x10000) / this.pressure)))
ClampPressure(p) ==
  IF ScalePressure(p) > 65535 THEN 65535
  ELSE IF ScalePressure(p) < 0 THEN 0 ELSE ScalePressure(p)

\* The points of one path that buildDrawingFromPaths keeps, scaled.
ScaledStroke(path) ==
  LET kept == SelectSeq(path, LAMBDA point :
                 point.valid /\ point.x # 65535 /\ point.y # 65535)
  IN  [k \in 1..Len(kept) |->
         [x |-> kept[k].x * pointSize, y |-> kept[k].y * pointSize,
          p |-> ClampPressure(kept[k].p)]]

RECURSIVE ScaledStrokes(_)
ScaledStrokes(paths) ==
  IF paths = <<>> THEN <<>>
  ELSE PushStroke(ScaledStrokes(SubSeq(paths, 1, Len(paths) - 1)),
                  ScaledStroke(paths[Len(paths)]))

\* buildDrawingFromPaths(paths, fallbackTimestamp): the strokes of the drawing.
buildDrawingFromPaths(paths) ==
  IF ScaledStrokes(paths) = <<>> THEN Null ELSE <<ScaledStrokes(paths)>>

\* tryParseSmartPad(bytes, timestamp): the strokes of the drawing, or null.
tryParseSmartPad(bytes) ==
  LET magic == SubSeq(bytes, 1, 4)
      decompressed == decompress(bytes, IF magic = sparkSig THEN 4 ELSE 16)
      parsed == IF magic = sparkSig THEN SmartPadFileParserColumbia(decompressed)
                ELSE SmartPadFileParser020102(decompressed)
  IN  IF magic \notin {sparkSig, intuosSig} THEN Null
      ELSE IF Len(decompressed) = 0 THEN Null
      ELSE IF parsed.thrown \/ Len(parsed.paths) = 0 THEN Null
      ELSE buildDrawingFromPaths(parsed.paths)

\* parseFileHeader(data): the size of the header, or the error thrown.
parseFileHeader(data) ==
  IF Len(data) < 4 THEN Err("File data too short for header")
  ELSE IF SubSeq(data, 1, 4) = sparkSig THEN RetData("header", <<4>>)
  ELSE IF SubSeq(data, 1, 4) = intuosSig
    THEN IF Len(data) < 16
         THEN Err("Intuos Pro format requires at least 16 bytes for header")
         ELSE RetData("header", <<16>>)
  ELSE Err("Unknown file format")

\* parse(data, timestamp): the strokes of the drawing returned, or the error thrown.
parse(bytes) ==
  IF Len(bytes) < 4 THEN Err("Invalid stroke data")
  ELSE IF tryParseSmartPad(bytes) # Null
    THEN RetData("drawing", tryParseSmartPad(bytes)[1])
  ELSE IF parseFileHeader(bytes).kind = "throw" THEN parseFileHeader(bytes)
  ELSE RetData("drawing", parseStrokes(SliceFrom(bytes, parseFileHeader(bytes).data[1])))

\* ---------------------------------------------------------------------------
\* SVGConverter: the paths of the drawing
\* ---------------------------------------------------------------------------

outputScalingFactor == 1000

\* Coordinates are in thousandths of the unit of the drawing here; toFixed(2)
\* of x / outputScalingFactor, in hundredths.
toFixed2(v) == (v * 100 + (outputScalingFactor \div 2)) \div outputScalingFactor

\* isNaN(x) || !isFinite(x) is false of every number; the strokes hold numbers.
isFinite(v) == v \in Int

\* The pressure of a point, without the reduction of the precision.
strokeWidth_Unquantized(point) == point.p

\* Math.floor((basePenWidth + penPressureWidthFactor * delta) * widthPrecision)
\* with delta = (p - 0x8000) / 0x8000, base 0.4, factor 0.2 and precision 10:
\* the width in tenths, floor(4 + 2 * (p - 32768) / 32768) = 2 + floor(p / 16384).
strokeWidth(point) == 2 + (point.p \div 16384)

\* strokeWidth * 0.26458 of a width in tenths, in millionths of a pixel.
widthPx(w) == w * 26458

\* widthPx.toFixed(2), in millionths of a pixel.
widthPxFixed(w) == ((widthPx(w) + 5000) \div 10000) * 10000

PathCommand(c, point) == [cmd |-> c, x |-> toFixed2(point.x), y |-> toFixed2(point.y)]

\* <path id="sk_${strokeIdx}_${pathId}" style="...stroke-width:${w}" d="${pathData}"/>
PathElement(strokeIdx, pathId, w, pathData) ==
  [strokeIdx |-> strokeIdx, pathId |-> pathId, strokeWidth |-> w, d |-> pathData]

\* The locals of convert before the first stroke and after each stroke. The
\* header and the footer of the document depend on the dimensions only.
ConvertNextStroke(l, strokeIdx) ==
  [l EXCEPT !.strokeIdx = strokeIdx, !.pointIdx = 1, !.pathData = Null,
            !.currentStrokeWidth = Null, !.pathId = 0]

ConvertStart(l, strokes) ==
  ConvertNextStroke([l EXCEPT !.strokes = strokes, !.svg = <<>>], 0)

\* The body of for (const point of stroke). The path that a change of the width
\* closes is written with the width of the point that opens the next path.
ConvertPoint(l, point) ==
  LET w == strokeWidth(point) IN
  IF ~(isFinite(point.x) /\ isFinite(point.y))
  THEN l
  ELSE IF l.currentStrokeWidth # <<w>>
  THEN [l EXCEPT !.svg = IF l.pathData # Null
                         THEN Append(@, PathElement(l.strokeIdx, l.pathId,
                                                    widthPxFixed(w), l.pathData))
                         ELSE @,
                 !.pathId = IF l.pathData # Null THEN @ + 1 ELSE @,
                 !.pathData = <<PathCommand("M", point)>>,
                 !.currentStrokeWidth = <<w>>]
  ELSE [l EXCEPT !.pathData = Append(@, PathCommand("L", point))]

\* if (pathData) svg += <path ...>, after the last point of the stroke.
ConvertCloseLast(l) ==
  IF l.pathData # Null
  THEN [l EXCEPT !.svg = Append(@, PathElement(l.strokeIdx, l.pathId,
                                               widthPx(l.currentStrokeWidth[1]),
                                               l.pathData))]
  ELSE l

ConvertDone(l) == l.strokeIdx >= Len(l.strokes)

\* One point of the stroke at strokeIdx, or the end of that stroke.
ConvertStep(l) ==
  LET stroke == l.strokes[l.strokeIdx + 1] IN
  IF l.pointIdx <= Len(stroke)
  THEN [ConvertPoint(l, stroke[l.pointIdx]) EXCEPT !.pointIdx = @ + 1]
  ELSE ConvertNextStroke(ConvertCloseLast(l), l.strokeIdx + 1)

RECURSIVE ConvertAll(_)
ConvertAll(l) == IF ConvertDone(l) THEN l ELSE ConvertAll(ConvertStep(l))

\* SVGConverter.convert({dimensions, strokes}): the path elements, in order.
convert(strokes) == ConvertAll(ConvertStart(NoLoc, strokes)).svg

(***************************************************************************)
(* WacomBLE.downloadAllNotes(outputDir)                                    *)
(***************************************************************************)
\* What lines 603-657 can end with for the bytes of one note: nothing was
\* received; parser.parse throws, or fs.writeFileSync does, and the catch logs
\* it; the drawing has no strokes; the note is saved.
NoteOutcomes(strokeData) ==
  IF strokeData = <<>> THEN { "noData" }
  ELSE LET drawing == parse(strokeData) IN
       IF drawing.kind = "throw" THEN { "error" }
       ELSE IF drawing.data = <<>> THEN { "empty" }
       ELSE { "saved", "error" }

\* new Date(timestamp * 1000).toISOString(): the fields of the UTC time of a Unix
\* time <<days, seconds of the day>>.
toISOString(timestamp) ==
  LET z == timestamp[1] + 719468
      era == z \div 146097
      doe == z - era * 146097
      yoe == (doe - (doe \div 1460) + (doe \div 36524) - (doe \div 146096)) \div 365
      doy == doe - (365 * yoe + (yoe \div 4) - (yoe \div 100))
      mp == (5 * doy + 2) \div 153
      month == IF mp < 10 THEN mp + 3 ELSE mp - 9
      secs == timestamp[2]
  IN  << yoe + era * 400 + (IF month <= 2 THEN 1 ELSE 0), month,
         doy - ((153 * mp + 2) \div 5) + 1,
         secs \div 3600, (secs \div 60) % 60, secs % 60, 0 >>

\* `${timestamp}.svg` in the output directory: the text YYYY-MM-DDTHH-MM-SS of the
\* time stamp (.replace(/[:.]/g, '-').slice(0, -5) drops the milliseconds), or
\* note-<i + 1> when fileInfo.timestamp is null or 0.
filename(timestamp, i) ==
  IF timestamp # <<>> /\ timestamp # <<0, 0>>
  THEN [stem |-> "time", parts |-> SubSeq(toISOString(timestamp), 1, 6)]
  ELSE [stem |-> "note", parts |-> <<i + 1>>]

\* notes.push({timestamp, svg, filename}), after fs.writeFileSync(filename, svg).
Note(timestamp, strokeData) ==
  [timestamp |-> timestamp, svg |-> convert(parse(strokeData).data),
   filename |-> filename(timestamp, loc.i)]

NoteHandled_SkipsOne(outcome) == [loc EXCEPT !.i = @ + 2]

NoteHandled_SavesAll(outcome) ==
  [loc EXCEPT !.i = @ + 1, !.notes = Append(@, [timestamp |-> loc.timestamp, svg |-> <<>>,
                                   filename |-> filename(loc.timestamp, loc.i)])]

\* Lines 603-657 for one note, then i++.
NoteHandled(outcome) ==
  [loc EXCEPT !.i = @ + 1,
              !.parsed = IF loc.strokeData # <<>> THEN @ + 1 ELSE @,
              !.notes = IF outcome = "saved"
                        THEN Append(@, Note(loc.timestamp, loc.strokeData)) ELSE @]

\* await of a step that is not optional: its error leaves downloadAllNotes, which
\* logs it and throws it again (catch (error) { ...; throw error }).
Aborts_Never(r) == FALSE

Aborts(r) == r.kind = "throw"

downloadAllNotes ==
  \/ /\ Top = "downloadAllNotes"
     /\ IF getDevice = NoDevice
        THEN Return(Err("Device is not registered"))
        ELSE Call("useSavedUUID", "downloadAllNotes.authenticated",
                  [loc EXCEPT !.uuid = getDevice.uuid])
  \/ /\ Top = "downloadAllNotes.authenticated"
     /\ IF Aborts(ret)
        THEN Return(ret)
        ELSE Call("setTime", "downloadAllNotes.timeSet", loc)
  \/ /\ Top = "downloadAllNotes.timeSet"
     /\ Call("selectTransferGatt", "downloadAllNotes.gattSet", loc)
  \/ /\ Top = "downloadAllNotes.gattSet"
     /\ Call("setPaperMode", "downloadAllNotes.paperMode", loc)
  \/ /\ Top = "downloadAllNotes.paperMode"
     /\ IF Aborts(ret)
        THEN IF ret.kind = "throw" /\ Includes(ret.val, "invalid state")
             THEN Return(Err("Device has no data or is not ready for download"))
             ELSE Return(ret)
        ELSE Call("getFilesCount", "downloadAllNotes.counted", loc)
  \/ /\ Top = "downloadAllNotes.counted"
     /\ IF ret.kind = "throw"
        THEN Return(ret)
        ELSE IF ret.data[1] = 0
        THEN Return(RetData("notes", <<>>))
        ELSE Control(<<"downloadAllNotes.loop">> \o Tail(pc), ret,
                     [loc EXCEPT !.fileCount = ret.data[1], !.i = 0])
  \/ /\ Top = "downloadAllNotes.loop"
     /\ IF loc.i < loc.fileCount
        THEN Call("getOldestFileInfo", "downloadAllNotes.info", loc)
        ELSE Return(RetData("notes", loc.notes))
  \/ /\ Top = "downloadAllNotes.info"
     /\ IF ret.kind = "throw"
        THEN Return(ret)
        ELSE Call("getOldestFile", "downloadAllNotes.downloaded",
                  [loc EXCEPT !.timestamp = ret.data[2]])
  \/ /\ Top = "downloadAllNotes.downloaded"
     /\ IF ret.kind = "throw"
        THEN Return(ret)
        ELSE Call("deleteOldestFile", "downloadAllNotes.deleted",
                  [loc EXCEPT !.strokeData = ret.data])
  \/ /\ Top = "downloadAllNotes.deleted"
     /\ IF ret.kind = "throw"
        THEN Return(ret)
        ELSE Call("getFilesCount", "downloadAllNotes.recounted", loc)
  \/ /\ Top = "downloadAllNotes.recounted"
     /\ IF ret.kind = "throw"
        THEN Return(ret)
        ELSE Goto("downloadAllNotes.sleep")
  \/ /\ Top = "downloadAllNotes.sleep"
     /\ \E outcome \in NoteOutcomes(loc.strokeData) :
          Control(<<"downloadAllNotes.loop">> \o Tail(pc), ret, NoteHandled(outcome))

(***************************************************************************)
(* The workflows of one session                                            *)
(***************************************************************************)
FlowInputs ==
  { [NoLoc EXCEPT !.op = "connect", !.uuid = SavedUuid,
                   !.isRegistration = r, !.allowNoResponse = a]
      : r \in BOOLEAN, a \in BOOLEAN }
  \cup { [NoLoc EXCEPT !.op = "useSavedUUID", !.uuid = SavedUuid] }
  \cup { [NoLoc EXCEPT !.op = "registerDevice", !.isSpark = sp] : sp \in BOOLEAN }
  \cup { [NoLoc EXCEPT !.op = "getOldestFile"] }
  \cup { [NoLoc EXCEPT !.op = "deleteOldestFile"] }
  \cup { [NoLoc EXCEPT !.op = "getFilesCount"] }
  \cup { [NoLoc EXCEPT !.op = "getOldestFileInfo"] }
  \cup { [NoLoc EXCEPT !.op = "setPaperMode"] }
  \cup { [NoLoc EXCEPT !.op = "downloadAllNotes"] }

FlowInit ==
  /\ CorrInit
  /\ \E input \in FlowInputs :
       /\ loc = input
       /\ pc = <<input.op>>
  /\ ret = NoRet
  /\ awaiting = 0
  /\ sent = <<>>
  /\ devQueue = <<>>
  /\ heard = {}
  /\ stream = <<>>
  /\ registry \in {NoDevice, [uuid |-> SavedUuid, protocol |-> "SLATE"]}

(***************************************************************************)
(* The pure functions of the protocol, applied to inputs of bounded size   *)
(***************************************************************************)
MaxPayload == 3

PayloadBytes == {0, 1, 255}

EnvelopeOpcodes == {0, 1, OP_C8, 255}

RECURSIVE SeqsUpTo(_, _)
SeqsUpTo(S, n) ==
  IF n = 0 THEN { <<>> }
  ELSE LET shorter == SeqsUpTo(S, n - 1)
       IN  shorter \cup { Append(q, b) : q \in shorter, b \in S }

\* UTC times of the years 2000..2099.
Times ==
  { [year |-> y, month |-> mo, day |-> d, hour |-> h, minute |-> mi, second |-> 7]
      : y \in {0, 9, 26, 99}, mo \in {1, 9, 12}, d \in {1, 28},
        h \in {0, 23}, mi \in {0, 59} }

CodecInputs ==
  { [NoLoc EXCEPT !.op = "envelope", !.arg = [opcode |-> o, payload |-> p]]
      : o \in EnvelopeOpcodes, p \in SeqsUpTo(PayloadBytes, MaxPayload) }
  \cup { [NoLoc EXCEPT !.op = "time", !.arg = t] : t \in Times }

CodecInit ==
  /\ CorrInit
  /\ \E input \in CodecInputs :
       /\ loc = input
       /\ pc = <<input.op>>
  /\ ret = NoRet
  /\ awaiting = 0
  /\ sent = <<>>
  /\ devQueue = <<>>
  /\ heard = {}
  /\ stream = <<>>
  /\ registry = NoDevice

\* msg = createMessage(opcode, payload)
EnvelopeEncode ==
  /\ Top = "envelope"
  /\ sent' = <<createMessage(loc.arg.opcode, loc.arg.payload)>>
  /\ pc' = <<"envelope.created">>
  /\ last' = Event("code", 0)
  /\ UNCHANGED <<corrVars, ret, awaiting, loc, devQueue, heard, stream, registry>>

\* parseMessage(msg)
EnvelopeDecode ==
  /\ Top = "envelope.created"
  /\ ret' = parseMessage(Head(sent))
  /\ pc' = <<>>
  /\ last' = Event("code", 0)
  /\ UNCHANGED <<corrVars, awaiting, loc, sent, devQueue, heard, stream, registry>>

\* setTime at the UTC time loc.arg: the message it writes.
TimeEncode ==
  /\ Top = "time"
  /\ sent' = <<createMessage(OP_B6, TimeBytes(loc.arg))>>
  /\ pc' = <<"time.written">>
  /\ last' = Event("code", 0)
  /\ UNCHANGED <<corrVars, ret, awaiting, loc, devQueue, heard, stream, registry>>

\* getOldestFileInfo receives the six bytes as the payload of a 0xcd reply.
TimeDecode ==
  /\ Top = "time.written"
  /\ ret' = RetData("timestamp",
                    DecodeTimestamp(<<OP_CD, 6>> \o Slice(Head(sent), 2, 8)))
  /\ pc' = <<>>
  /\ last' = Event("code", 0)
  /\ UNCHANGED <<corrVars, awaiting, loc, sent, devQueue, heard, stream, registry>>

CodecNext ==
  \/ EnvelopeEncode
  \/ EnvelopeDecode
  \/ TimeEncode
  \/ TimeDecode

CodecSpec == CodecInit /\ [][CodecNext]_vars

(***************************************************************************)
(* The stroke decoder and the renderer, applied to inputs of bounded size  *)
(***************************************************************************)
MaxPackets == 3

Packet(k, x, y, p) == [kind |-> k, x |-> x, y |-> y, p |-> p]

\* The packets the streams are built from: absolute points, deltas, the markers,
\* eight and nine 0xff bytes, and a packet of no known kind.
Packets ==
  { Packet("abs", 1000, 2000, 511), Packet("abs", 300, 65535, 1023),
    Packet("delta", 1, 0, 0), Packet("delta", 0, -1, 4) }
  \cup { Packet(k, 0, 0, 0)
           : k \in {"end", "headerSlate", "headerIntuos", "lost", "unknown",
                    "signature", "ff8", "eof"} }

U16(v) == << v % 256, v \div 256 >>

\* The 8-bit two's complement byte of a delta, and nothing for no delta.
DeltaByte(v) == IF v = 0 THEN <<>> ELSE << (v + 256) % 256 >>

\* The bytes of a packet.
PacketBytes(k) ==
  CASE k.kind = "abs" -> <<255, 255, 255>> \o U16(k.x) \o U16(k.y) \o U16(k.p)
    [] k.kind = "delta" ->
         << (IF k.x # 0 THEN 8 ELSE 0) + (IF k.y # 0 THEN 32 ELSE 0)
            + (IF k.p # 0 THEN 128 ELSE 0) >>
         \o DeltaByte(k.x) \o DeltaByte(k.y) \o DeltaByte(k.p)
    [] k.kind = "end" -> <<252>> \o Repeat(255, 6)
    [] k.kind = "headerSlate" -> <<255, 255, 238, 238, 1, 2, 3, 4, 0>>
    [] k.kind = "headerIntuos" -> <<255, 250, 0, 1, 2, 3, 4, 5, 6>>
    [] k.kind = "lost" -> <<255, 221, 221, 2, 0, 0, 0, 0, 0>>
    [] k.kind = "unknown" -> <<1, 7>>
    [] k.kind = "signature" -> sparkSig
    [] k.kind = "ff8" -> Repeat(255, 8)
    [] k.kind = "eof" -> Repeat(255, 9)

RECURSIVE StreamBytes(_)
StreamBytes(packets) ==
  IF packets = <<>> THEN <<>>
  ELSE PacketBytes(Head(packets)) \o StreamBytes(Tail(packets))

\* Calls of the decompressor on other data, between two calls on the same data.
OtherData ==
  { StreamBytes(ks) : ks \in SeqsUpTo({k \in Packets : k.kind \in {"abs", "delta"}}, 1) }

MaxPoints == 5

\* Points as the decoders give them: coordinates that are multiples of
\* pointSize, and pressures of the widths 0.3, 0.3 and 0.5.
DrawingPoints ==
  { [x |-> 1000, y |-> 2000, p |-> 20000],
    [x |-> 1230, y |-> 2000, p |-> 30000],
    [x |-> 1000, y |-> 40, p |-> 60000] }

\* Drawings of one stroke of up to MaxPoints points, and of two short strokes.
Drawings ==
  { <<s>> : s \in SeqsUpTo(DrawingPoints, MaxPoints) }
  \cup { <<s, t>> : s, t \in SeqsUpTo(DrawingPoints, 2) }

\* The headers of the files: the two signatures (the second with its 16-byte
\* header), a signature that is not known, and a file cut after two bytes.
FileHeaders ==
  { sparkSig, intuosSig \o <<0, 0, 0, 0, 0, 0, 1, 0, 0, 0, 0, 0>>, <<1, 2, 3, 4>>,
    <<98, 56>> }

ParserInputs ==
  { [NoLoc EXCEPT !.op = "parseStrokes", !.arg = ks, !.data = StreamBytes(ks)]
      : ks \in SeqsUpTo(Packets, MaxPackets) }
  \cup { [NoLoc EXCEPT !.op = "parse", !.arg = h \o StreamBytes(ks)]
           : h \in FileHeaders, ks \in SeqsUpTo(Packets, MaxPackets - 1) }
  \cup { [NoLoc EXCEPT !.op = "convert", !.arg = d] : d \in Drawings }
  \cup { [NoLoc EXCEPT !.op = "decompress",
                       !.arg = [data |-> StreamBytes(ks), offset |-> o, other |-> b]]
           : ks \in SeqsUpTo(Packets, MaxPackets - 1), o \in {0, 4}, b \in OtherData }

ParserInit ==
  /\ CorrInit
  /\ \E input \in ParserInputs :
       /\ loc = input
       /\ pc = <<input.op>>
  /\ ret = NoRet
  /\ awaiting = 0
  /\ sent = <<>>
  /\ devQueue = <<>>
  /\ heard = {}
  /\ stream = <<>>
  /\ registry = NoDevice

\* parseStrokes(data): the locals are set up, then the loop runs packet by packet.
parseStrokesEnter ==
  /\ Top = "parseStrokes"
  /\ Control(<<"parseStrokes.loop">> \o Tail(pc), ret, ScanStart(loc, loc.data))

parseStrokesLoop ==
  /\ Top = "parseStrokes.loop"
  /\ ~ScanDone(loc)
  /\ Control(pc, ret, ScanStep(loc))

parseStrokesReturn ==
  /\ Top = "parseStrokes.loop"
  /\ ScanDone(loc)
  /\ Return(RetData("strokes", ScanResult(loc)))

\* SmartPadDecompressor.decompress(data, offset), a call on other data, and the
\* same call again. loc.instance is the instance the call before has left.
DecompressCall(data, offset) ==
  decompressFrom(SmartPadDecompressor(loc.instance), data, offset)

decompressTwice ==
  \/ /\ Top = "decompress"
     /\ LET r == DecompressCall(loc.arg.data, loc.arg.offset)
        IN  Control(<<"decompress.other">>, ret,
                    [loc EXCEPT !.first = r.output, !.instance = r.workBuffer])
  \/ /\ Top = "decompress.other"
     /\ LET r == DecompressCall(loc.arg.other, 0)
        IN  Control(<<"decompress.again">>, ret, [loc EXCEPT !.instance = r.workBuffer])
  \/ /\ Top = "decompress.again"
     /\ LET r == DecompressCall(loc.arg.data, loc.arg.offset)
        IN  Control(<<>>, RetData("output", r.output),
                    [loc EXCEPT !.instance = r.workBuffer])

\* parser.parse(data, timestamp)
parseCall ==
  /\ Top = "parse"
  /\ Control(<<>>, parse(loc.arg), loc)

\* converter.convert(drawing): point by point, then the document is returned.
convertEnter ==
  /\ Top = "convert"
  /\ Control(<<"convert.loop">> \o Tail(pc), ret, ConvertStart(loc, loc.arg))

convertLoop ==
  /\ Top = "convert.loop"
  /\ ~ConvertDone(loc)
  /\ Control(pc, ret, ConvertStep(loc))

convertReturn ==
  /\ Top = "convert.loop"
  /\ ConvertDone(loc)
  /\ Return(RetData("svg", loc.svg))

ParserNext ==
  \/ parseCall
  \/ convertEnter
  \/ convertLoop
  \/ convertReturn
  \/ parseStrokesEnter
  \/ parseStrokesLoop
  \/ parseStrokesReturn
  \/ decompressTwice

ParserSpec == ParserInit /\ [][ParserNext]_vars

FlowNext ==
  \/ connect
  \/ useSavedUUID
  \/ registerPressButton
  \/ registerWaitForButton
  \/ registerComplete
  \/ setTime
  \/ readTime
  \/ selectTransferGatt
  \/ getOldestFile
  \/ deleteOldestFile
  \/ getFilesCount
  \/ getOldestFileInfo
  \/ setPaperMode
  \/ downloadAllNotes
  \/ registerDevice
  \/ Deliver
  \/ FlowTimerFire
  \/ FlowTick

FlowSpec == FlowInit /\ [][FlowNext]_vars

(***************************************************************************)
(* Properties of the workflows                                             *)
(***************************************************************************)
TimedOut(i) == waits[i].state = "rejected" /\ waits[i].reason = "timeout"

\* C4: the deadline applied to a wait is the timeout the protocol operation asked
\* for: a wait that expires (the end-marker wait of getOldestFile asked for 30000 ms,
\* the button-confirmation wait of registration for 15000 ms) has been pending for
\* at least the time it was registered with.
C4_DeadlineIsRequested ==
  \A i \in WaitIds : TimedOut(i) => waits[i].elapsed >= waits[i].requested

ConnectReturned == loc.op = "connect" /\ pc = <<>>

\* The device answered the CONNECT command with 0x51 while connect awaited 0x51.
Answered51 == { h \in heard : h.data[1] = OP_51 /\ h.at = "connect.w51" }

\* C7: when the device answers the 0xE6 command with an explicit failure 0x51,
\* connect never reports success: reason 0x00 or 0x03 fails as invalid state, reason
\* 0x01 or 0x02 fails as authorization mismatch, or returns needsRegistration when
\* connect was called for registration.
C7_ExplicitFailureReported ==
  ConnectReturned =>
    \A h \in Answered51 :
      /\ ret # Ret("success")
      /\ ReasonByte(h.data) \in {0, 3} => ret = Err("Device in invalid state")
      /\ ReasonByte(h.data) \in {1, 2} =>
           ret = IF loc.isRegistration
                 THEN Ret("needsRegistration")
                 ELSE Err("Authorization failed - wrong UUID. Device may need re-registration.")

\* The CONNECT command was written and none of 0x50, 0x51, 0xb3 was notified after it.
NoConnectReply ==
  /\ sent # <<>>
  /\ ret # Err("write failed")
  /\ \A h \in heard : h.data[1] \notin {OP_50, OP_51, OP_B3}

\* C8: if none of the replies 0x50, 0x51, 0xb3 arrives after the 0xE6 command,
\* connect returns success when allowNoResponse is set; otherwise it returns
\* needsRegistration when called for registration and else throws
\* 'No response from device'.
C8_SilenceOutcome ==
  (ConnectReturned /\ NoConnectReply) =>
    ret = IF loc.allowNoResponse THEN Ret("success")
          ELSE IF loc.isRegistration THEN Ret("needsRegistration")
          ELSE Err("No response from device")

C8_Witness ==
  /\ ConnectReturned
  /\ NoConnectReply
  /\ loc.allowNoResponse /\ loc.isRegistration
  /\ last = Event("resume", 0)
  /\ ret = Ret("success")

ButtonWaitReturned == Top = "registerDevice.button"

\* Button notifications delivered between the start of registerWaitForButton and
\* its end.
ButtonHeard(opcode) ==
  { h \in heard : /\ h.data[1] = opcode
                  /\ h.at \in {"registerWaitForButton.wE4", "registerWaitForButton.w53"} }

\* C9: whenever within registerWaitForButton the device notifies 0x53 the result is
\* INTUOS_PRO, and when it notifies 0xe4 the result is the default variant; a 0x53
\* that arrives while 0xe4 is still awaited is not lost.
C9_ButtonAnyTime ==
  ButtonWaitReturned =>
    /\ (ButtonHeard(OP_53) # {} /\ ButtonHeard(OP_E4) = {}) => ret = Ret("INTUOS_PRO")
    /\ (ButtonHeard(OP_E4) # {} /\ ButtonHeard(OP_53) = {}) => ret = Ret("SPARK")

RegistrationReturned ==
  loc.op = "registerDevice" /\ ~loc.isSpark /\ pc = <<>> /\ loc.button # "none"

DeleteReturned == loc.op = "deleteOldestFile" /\ pc = <<>>

\* The 0xb3 replies with a status byte that the wait of deleteOldestFile received.
DeleteReplies ==
  { h \in heard : /\ h.data[1] = OP_B3 /\ Len(h.data) >= 3
                  /\ h.at = "deleteOldestFile.wB3" }

\* C12: deleteOldestFile completes without an error when the 0xb3 reply carries
\* status 0x00, 0x01 or 0x02; any other status byte makes it throw the delete error.
C12_DeleteTolerance ==
  DeleteReturned =>
    \A h \in DeleteReplies :
      IF h.data[3] \in {0, 1, 2}
      THEN ret = Ret("undefined")
      ELSE ret = Err("Delete failed with error code")

C12_Witness ==
  /\ DeleteReturned
  /\ \E h \in DeleteReplies : h.data = <<OP_B3, 1, 2>>
  /\ ret = Ret("undefined")

\* C13: if no 0xb3 reply arrives before the wait times out, deleteOldestFile
\* completes without raising an error.
C13_SilentDeleteTolerated ==
  (/\ DeleteReturned
   /\ ret # Err("write failed")
   /\ \A h \in heard : h.data[1] # OP_B3) => ret.kind = "return"

FilesCountReturned == loc.op = "getFilesCount" /\ pc = <<>>

\* The 0xc2 replies that the wait of getFilesCount received.
FilesCountReplies ==
  { h \in heard : h.data[1] = OP_C2 /\ h.at = "getFilesCount.wC2" }

\* C14: getFilesCount returns reply[2] + 256 * reply[3] for every 0xc2 reply of at
\* least 4 bytes and throws the invalid-reply error for a shorter reply.
C14_LittleEndianCount ==
  FilesCountReturned =>
    \A h \in FilesCountReplies :
      IF Len(h.data) >= 4
      THEN ret = RetData("count", <<h.data[3] + 256 * h.data[4]>>)
      ELSE ret = Err("Invalid reply length for file count")

C14_Witness ==
  /\ FilesCountReturned
  /\ \E h \in FilesCountReplies : h.data = <<OP_C2, 2, 44, 1>>
  /\ ret = RetData("count", <<300>>)

EnvelopeDone == loc.op = "envelope" /\ pc = <<>>

\* C15: for every opcode and payload, parseMessage(createMessage(opcode, payload))
\* returns that opcode, the payload size as length, and the payload byte for byte.
C15_EnvelopeRoundTrip ==
  EnvelopeDone =>
    ret = RetData("message", <<loc.arg.opcode, Len(loc.arg.payload), loc.arg.payload>>)

C15_Witness ==
  /\ EnvelopeDone
  /\ loc.arg.payload = <<255, 0, 1>>
  /\ Head(sent) = <<OP_C8, 3, 255, 0, 1>>
  /\ ret.data[3] = <<255, 0, 1>>

InfoReturned == loc.op = "getOldestFileInfo" /\ pc = <<>> /\ ret.kind = "return"

\* The replies with the given opcode that arrived while getOldestFileInfo was waiting.
InfoReplies(opcode) ==
  { h \in heard : /\ h.data[1] = opcode
                  /\ h.at \in {"getOldestFileInfo.wC7", "getOldestFileInfo.wCD"} }

\* C16: getOldestFileInfo treats the 0xc7 and 0xcd replies independently: a 0xcd
\* reply gives the timestamp decoded from it and a 0xc7 reply gives the count decoded
\* from it, whatever their order and whether or not the other one is sent; an absent
\* count gives 0 and an absent timestamp gives the current time.
C16_IndependentReplies ==
  InfoReturned =>
    /\ \A h \in InfoReplies(OP_CD) :
         Len(h.data) >= 8 => ret.data[2] = DecodeTimestamp(h.data)
    /\ \A h \in InfoReplies(OP_C7) :
         Len(h.data) >= 6 => ret.data[1] = InfoCount(h.data)
    /\ InfoReplies(OP_C7) = {} => ret.data[1] = 0
    /\ InfoReplies(OP_CD) = {} => ret.data[2] = UnixTime(Now)

TimeDone == loc.op = "time" /\ pc = <<>>

\* C17: the six-byte time encoding is the same in both directions: the bytes setTime
\* writes for a UTC time T of the years 2000..2099 are decoded by getOldestFileInfo,
\* as the payload of a 0xcd reply, to the Unix timestamp of T.
C17_TimeRoundTrip == TimeDone => ret.data = UnixTime(loc.arg)

\* getOldestFile has just returned the bytes of a file.
FileReturned ==
  /\ ret.kind = "return" /\ ret.val = "fileData"
  /\ \/ loc.op = "getOldestFile" /\ pc = <<>>
     \/ Top = "downloadAllNotes.downloaded"

RECURSIVE BulkBytes(_)
BulkBytes(s) ==
  IF s = <<>> THEN <<>>
  ELSE (IF Head(s).ch = "bulk" THEN Head(s).data ELSE <<>>) \o BulkBytes(Tail(s))

\* The notifications delivered after the start marker, up to now.
AfterStartMarker ==
  LET n == CHOOSE m \in 1..Len(stream) :
             /\ stream[m] = StartMarker
             /\ \A k \in 1..(m - 1) : stream[k] # StartMarker
  IN  SubSeq(stream, n + 1, Len(stream))

\* C18: the bytes getOldestFile returns are exactly the payloads of the bulk
\* notifications received after the start marker and before the snapshot, in
\* arrival order; bytes received before the start marker are not part of them.
C18_BytesInArrivalOrder ==
  FileReturned =>
    /\ \E m \in 1..Len(stream) : stream[m] = StartMarker
    /\ ret.data = BulkBytes(AfterStartMarker)

C18_Witness ==
  /\ FileReturned
  /\ stream[1] = Bulk(<<10>>)
  /\ \E m \in 1..Len(stream) : stream[m] = Bulk(<<12>>)
  /\ ret.data = <<11, 12>>

\* The number of download commands written so far: the file being downloaded.
CurrentFile == Cardinality({n \in 1..Len(sent) : sent[n][1] = OP_C3})

\* The bytes are bytes that the device sent for the file of the last download
\* command: numbered bytes of that file, or one of its whole files.
OfCurrentFile(data) ==
  \/ \A n \in 1..Len(data) : data[n] \div 10 = CurrentFile
  \/ data \in {StrokeFileOf(CurrentFile), NoStrokeFile}

\* C19: after getOldestFile returns, the bulk-transfer buffer is empty and the
\* transfer-complete flag is false; no byte of an earlier file, also one that arrived
\* after that file's snapshot, is among the bytes returned for the next file.
C19_NoCarryOver ==
  FileReturned =>
    /\ fileTransferBuffer = <<>>
    /\ ~fileTransferComplete
    /\ OfCurrentFile(ret.data)

\* The second file is returned after the first one came without its last byte:
\* that byte arrived after the first file's snapshot.
C19_Witness ==
  /\ FileReturned
  /\ CurrentFile = 2
  /\ loc.strokeData = <<11>>
  /\ ret.data = <<21, 22>>

\* C11: the UUID stored for the device never changes outside a completed
\* registration: registerDevice on an address that is already registered sends no
\* command and returns the stored entry, and no step of a download session writes
\* to the registry.
RegistryChangesOnlyByRegistration ==
  registry' # registry =>
    /\ loc.op = "registerDevice"
    /\ registry = NoDevice
    /\ loc.button = "confirmed"
    /\ registry'.uuid = loc.uuid

RegisteredReturnsExisting ==
  (loc.op = "registerDevice" /\ loc.button = "none" /\ registry # NoDevice) =>
    /\ sent = <<>>
    /\ pc = <<>> => ret = RetData("existing", registry.uuid)

C11_UuidStable ==
  /\ [](RegisteredReturnsExisting)
  /\ [][RegistryChangesOnlyByRegistration]_vars

C11_Witness ==
  /\ loc.op = "registerDevice"
  /\ pc = <<>>
  /\ sent = <<>>
  /\ registry.uuid = SavedUuid
  /\ ret = RetData("existing", SavedUuid)

InSession == loc.op = "downloadAllNotes"

\* The number of delete commands written so far.
Deletes == Cardinality({n \in 1..Len(sent) : sent[n][1] = OP_CA})

\* C20 as stated: for every file the order is download, parse, delete: the 0xca
\* delete command of a file is sent only after the file's end marker was received
\* and its bytes were decoded.
C20_DeleteAfterParse == InSession => Deletes <= loc.i

\* The files are handled one after the other: file i + 1 is requested, then deleted,
\* and then note i + 1 is handled.
OneFileAtATime ==
  InSession =>
    /\ loc.i <= Deletes /\ Deletes <= CurrentFile /\ CurrentFile <= loc.i + 1

\* The delete command of a file is written after the file's end marker has arrived
\* and before the file is parsed; the note is handled after its file was deleted.
DeleteBetweenDownloadAndParse ==
  InSession =>
    /\ Deletes' = Deletes + 1 =>
         /\ \E m \in 1..Len(stream) : stream[m] = EndMarker
         /\ CurrentFile = Deletes + 1
         /\ loc.i = Deletes
         /\ loc.parsed <= Deletes
    /\ loc.i' # loc.i => (loc.i' = loc.i + 1 /\ Deletes = loc.i + 1)

\* C20, amended: for every file the order is download, delete, parse.
C20_DownloadDeleteParse ==
  /\ [](OneFileAtATime)
  /\ [][DeleteBetweenDownloadAndParse]_vars

\* The second file has been deleted after the first note was parsed and saved.
C20_Witness ==
  /\ InSession
  /\ Deletes = 2
  /\ loc.i = 1
  /\ loc.parsed = 1
  /\ Len(loc.notes) = 1

(***************************************************************************)
(* Properties of the stroke decoder and the renderer                       *)
(***************************************************************************)
\* The loop of parseStrokes is running on the stream of the packets loc.arg.
Scanning == loc.op = "parseStrokes" /\ Top = "parseStrokes.loop"

\* The scanner has consumed exactly the first n packets of its input.
Consumed(n) ==
  /\ n <= Len(loc.arg)
  /\ loc.offset = Len(StreamBytes(SubSeq(loc.arg, 1, n)))

LastOf(s) == s[Len(s)]

PlusOneX == Packet("delta", 1, 0, 0)

\* The scanner has consumed an absolute point with x = 1000 and then n delta
\* packets of +1 on the x axis.
AfterPlusOnes(n) ==
  /\ Scanning
  /\ Consumed(n + 1)
  /\ loc.arg[1].kind = "abs" /\ loc.arg[1].x = 1000
  /\ \A j \in 2..(n + 1) : loc.arg[j] = PlusOneX

ParseStrokesReturned == loc.op = "parseStrokes" /\ pc = <<>>

OnlyAbsolute == \A j \in 1..Len(loc.arg) : loc.arg[j].kind = "abs"

\* All points of a sequence of strokes, in order.
RECURSIVE PointsOf(_)
PointsOf(strokes) ==
  IF strokes = <<>> THEN <<>> ELSE Head(strokes) \o PointsOf(Tail(strokes))

\* C23: for a stream of absolute point packets only, the scanner returns one point
\* per packet, in order, with x and y the packet's 16-bit values times pointSize.
C23_AbsoluteRoundTrip ==
  (ParseStrokesReturned /\ OnlyAbsolute) =>
    LET points == PointsOf(ret.data)
    IN  /\ Len(points) = Len(loc.arg)
        /\ \A j \in 1..Len(loc.arg) :
             /\ points[j].x = loc.arg[j].x * pointSize
             /\ points[j].y = loc.arg[j].y * pointSize

\* The bytes at the scanner's offset are 0xfc followed by six 0xff bytes.
AtStrokeEndMarker ==
  /\ loc.offset + 7 <= Len(loc.data)
  /\ SubSeq(loc.data, loc.offset + 1, loc.offset + 7) = <<252>> \o Repeat(255, 6)

IsPrefix(s, t) == Len(s) <= Len(t) /\ SubSeq(t, 1, Len(s)) = s

\* All points pushed so far, in order.
Collected == PointsOf(loc.strokes) \o loc.currentStroke

StrokeEndCloses ==
  (Scanning /\ AtStrokeEndMarker /\ loc.currentStroke # <<>>) =>
    /\ loc.strokes' = Append(loc.strokes, loc.currentStroke)
    /\ loc.currentStroke' = <<>>
    /\ Scanning'

NoPointLost == (Scanning /\ Scanning') => IsPrefix(Collected, Collected')

\* C24: a stroke-end marker met while the current stroke holds points appends that
\* stroke to the output with all of its points, in order, before any later point is
\* collected, and no point pushed earlier is lost.
C24_StrokeEndKeepsPoints == [][StrokeEndCloses /\ NoPointLost]_vars

\* A stroke closed by a stroke-end marker, and a point of the next stroke.
C24_Witness ==
  /\ Scanning
  /\ Consumed(3)
  /\ loc.arg[1].kind = "abs" /\ loc.arg[2].kind = "end" /\ loc.arg[3].kind = "abs"
  /\ Len(loc.strokes) = 1 /\ Len(loc.strokes[1]) = 1
  /\ Len(loc.currentStroke) = 1

\* The bytes at the scanner's offset are eight 0xff bytes.
AtSentinel ==
  /\ loc.offset + 8 <= Len(loc.data)
  /\ SubSeq(loc.data, loc.offset + 1, loc.offset + 8) = Repeat(255, 8)

\* C25 as stated: at eight consecutive 0xff bytes the scanner stops at once: the
\* stroke in progress, if not empty, is appended to the output, no point is made of
\* the sentinel and nothing after it is decoded, also when the sentinel ends the
\* data.
SentinelStops ==
  (Scanning /\ AtSentinel) =>
    /\ pc' = <<>>
    /\ ret' = RetData("strokes", PushStroke(loc.strokes, loc.currentStroke))

AtPacket(k) ==
  LET bytes == PacketBytes(k)
  IN  /\ loc.offset + Len(bytes) <= Len(loc.data)
      /\ SubSeq(loc.data, loc.offset + 1, loc.offset + Len(bytes)) = bytes

AtStrokeHeaderMarker ==
  AtPacket(Packet("headerSlate", 0, 0, 0)) \/ AtPacket(Packet("headerIntuos", 0, 0, 0))

\* C26 as stated: a stroke-end marker and a stroke-header marker each reset the
\* running delta of all three axes to zero and leave the last absolute point
\* unchanged.
MarkerResetsDelta ==
  (Scanning /\ (AtStrokeEndMarker \/ AtStrokeHeaderMarker)) =>
    /\ loc.lastDelta' = ZeroPoint
    /\ loc.lastPoint' = loc.lastPoint

HeaderResetsDelta ==
  (Scanning /\ AtStrokeHeaderMarker) =>
    /\ loc.lastDelta' = ZeroPoint
    /\ loc.lastPoint' = loc.lastPoint

StrokeEndKeepsDelta ==
  (Scanning /\ AtStrokeEndMarker) =>
    /\ loc.lastDelta' = loc.lastDelta
    /\ loc.lastPoint' = loc.lastPoint

C28_OpenStrokeEmitted ==
  (ParseStrokesReturned /\ loc.offset >= Len(loc.data) /\ loc.currentStroke # <<>>) =>
    ret.data = Append(loc.strokes, loc.currentStroke)

DecompressedTwice == loc.op = "decompress" /\ pc = <<>>

\* C29: decompress is deterministic and keeps no state between calls: two calls
\* on the same bytes and offset return the same output, whatever was decompressed
\* in between.
C29_DecompressStateless == DecompressedTwice => ret.data = loc.first

\* The second call predicts a lane from its history, after a call on other data
\* that has left values in its own work buffer.
C29_Witness ==
  /\ DecompressedTwice
  /\ loc.arg.other = PacketBytes(Packet("abs", 1000, 2000, 511))
  /\ loc.arg.data = PacketBytes(PlusOneX)
  /\ loc.arg.offset = 0
  /\ ret.data = <<0, 0, 1, 0, 0, 0, 0, 0>>
  /\ ret.data = loc.first

\* The bytes at the scanner's offset are a header byte 0xff and a payload of eight
\* 0xff bytes.
AtEof == AtPacket(Packet("eof", 0, 0, 0))

EofStops ==
  (Scanning /\ AtEof) =>
    /\ pc' = <<>>
    /\ ret' = RetData("strokes", PushStroke(loc.strokes, loc.currentStroke))

ParseReturned == loc.op = "parse" /\ pc = <<>>

\* C27: no stroke with zero points is in the strokes of a drawing that parse
\* returns, on the decompressed path and on the path of the packet scanner.
C27_NoEmptyStroke ==
  (ParseReturned /\ ret.kind = "return") =>
    \A k \in 1..Len(ret.data) : ret.data[k] # <<>>

\* A drawing of the decompressed path: the container holds a stroke of one point
\* and a stroke header with no point after it, and the drawing has one stroke.
C27_Witness ==
  /\ ParseReturned
  /\ ret.kind = "return"
  /\ SubSeq(loc.arg, 1, 4) = sparkSig
  /\ tryParseSmartPad(loc.arg) # Null
  /\ Len(SmartPadFileParserColumbia(decompress(loc.arg, 4)).paths) = 2
  /\ Len(ret.data) = 1

\* A drawing of the packet scanner: the container gave nothing and the scanner
\* closed at least one stroke.
C27_DirectPathReturned ==
  /\ ParseReturned
  /\ ret.kind = "return"
  /\ tryParseSmartPad(loc.arg) = Null
  /\ ret.data # <<>>

ConvertReturned == loc.op = "convert" /\ pc = <<>> /\ ret.kind = "return"

\* The path elements of the stroke at index k of the drawing, in document order.
PathsOfStroke(k) == SelectSeq(ret.data, LAMBDA e : e.strokeIdx = k)

\* The number of points in the first n of the paths.
RECURSIVE PointsBefore(_, _)
PointsBefore(paths, n) ==
  IF n = 0 THEN 0 ELSE PointsBefore(paths, n - 1) + Len(paths[n].d)

\* The pen width of a point in tenths, 0.4 + 0.2 * (p - 0x8000) / 0x8000 cut to
\* one decimal: the widths 0.2 .. 0.6 each take 16384 pressures.
PenWidth(point) ==
  CHOOSE w \in 2..6 : (w - 2) * 16384 <= point.p /\ point.p < (w - 1) * 16384

\* The paths are the maximal runs of equal quantized width of the stroke: they
\* are numbered from 0, they hold the points of the stroke in order, each starts
\* with a move, the points of one path have one width, and the width changes
\* from the last point of a path to the first point of the next.
RunsOfEqualWidth(stroke, paths) ==
  /\ PointsBefore(paths, Len(paths)) = Len(stroke)
  /\ \A j \in 1..Len(paths) :
       LET first == PointsBefore(paths, j - 1) IN
       /\ paths[j].pathId = j - 1
       /\ Len(paths[j].d) > 0
       /\ \A n \in 1..Len(paths[j].d) :
            /\ paths[j].d[n] =
                 PathCommand(IF n = 1 THEN "M" ELSE "L", stroke[first + n])
            /\ PenWidth(stroke[first + n]) = PenWidth(stroke[first + 1])
       /\ j > 1 => PenWidth(stroke[first]) # PenWidth(stroke[first + 1])

\* C30: for every stroke, convert emits one path per maximal run of consecutive
\* points with equal quantized pen width, holding the points of the run in order.
C30_OnePathPerWidthRun ==
  ConvertReturned =>
    /\ \A e \in 1..Len(ret.data) : ret.data[e].strokeIdx \in 0..(Len(loc.arg) - 1)
    /\ \A k \in 1..Len(loc.arg) : RunsOfEqualWidth(loc.arg[k], PathsOfStroke(k - 1))

WidthsOf(stroke) == [n \in 1..Len(stroke) |-> PenWidth(stroke[n])]

\* A stroke of the widths 0.3, 0.3, 0.5, 0.5, 0.5, the first two of different
\* pressures, has given two paths, of two and of three points.
C30_Witness ==
  /\ ConvertReturned
  /\ Len(loc.arg) = 1
  /\ WidthsOf(loc.arg[1]) = <<3, 3, 5, 5, 5>>
  /\ loc.arg[1][1].p # loc.arg[1][2].p
  /\ Len(ret.data) = 2
  /\ Len(ret.data[1].d) = 2
  /\ Len(ret.data[2].d) = 3

\* The bytes of a downloaded file are cut before the end of the signature, or
\* start with a signature that is not known, or decode to no strokes.
FormatError(strokeData) ==
  /\ strokeData # <<>>
  /\ \/ Len(strokeData) < 4
     \/ SubSeq(strokeData, 1, 4) \notin {sparkSig, intuosSig}
     \/ parse(strokeData).kind = "return" /\ parse(strokeData).data = <<>>

\* downloadAllNotes handles the bytes of the file it has downloaded and deleted.
HandlesNote == Top = "downloadAllNotes.sleep" /\ pc' # pc

\* C21: a format error while decoding one downloaded file is confined to that
\* file: downloadAllNotes does not fail on it, the file adds no entry to the notes,
\* the loop goes on with the next file, and the notes are returned only when
\* fileCount files have been processed.
C21_FormatErrorConfined ==
  [][ /\ (HandlesNote /\ FormatError(loc.strokeData)) =>
           /\ pc' = <<"downloadAllNotes.loop">> \o Tail(pc)
           /\ loc'.notes = loc.notes
           /\ loc'.i = loc.i + 1
           /\ loc'.fileCount = loc.fileCount
      /\ (Top = "downloadAllNotes.loop" /\ pc' = Tail(pc)) =>
           /\ loc.i = loc.fileCount
           /\ ret' = RetData("notes", loc.notes) ]_vars

\* A session of two files has returned its notes: the first file gave the one
\* note, and the second file, of four bytes of an unknown signature, gave none.
C21_Witness ==
  /\ loc.op = "downloadAllNotes"
  /\ pc = <<>>
  /\ ret = RetData("notes", loc.notes)
  /\ loc.fileCount = 2
  /\ loc.i = 2
  /\ loc.parsed = 2
  /\ Len(loc.strokeData) = 4
  /\ FormatError(loc.strokeData)
  /\ parse(loc.strokeData) = Err("Unknown file format")
  /\ Len(loc.notes) = 1
  /\ loc.notes[1].svg # convert(<<>>)

\* C31: every pressure in a drawing that parse returns lies in 0..0xFFFF.
C31_PressureIn16Bits ==
  (ParseReturned /\ ret.kind = "return") =>
    \A k \in 1..Len(ret.data) : \A n \in 1..Len(ret.data[k]) :
      ret.data[k][n].p \in 0..65535

\* The number of input bytes that the fields of a tag byte ask for: one for a
\* field of value 2, two for a field of value 3.
FieldBytes(dataTag) ==
  LET need(f) == IF f = 2 THEN 1 ELSE IF f = 3 THEN 2 ELSE 0
  IN  need(dataTag % 4) + need((dataTag \div 4) % 4)
      + need((dataTag \div 16) % 4) + need((dataTag \div 64) % 4)

\* The compressed input ends inside a unit: the unit whose tag is at index, or a
\* later one, asks for bytes past the end of the data.
RECURSIVE EndsInsideUnit(_, _)
EndsInsideUnit(data, index) ==
  IF index >= Len(data) THEN FALSE
  ELSE LET next == index + 1 + FieldBytes(data[index + 1])
       IN  next > Len(data) \/ EndsInsideUnit(data, next)

\* C32: when the compressed input ends inside a unit, decompression reports an
\* error instead of returning output computed from the missing bytes.
C32_TruncationReported ==
  (DecompressedTwice /\ EndsInsideUnit(loc.arg.data, loc.arg.offset)) =>
    ret.kind = "throw"

\* The 0xc8 notifications delivered since the last command was written, in order.
C8Notifications ==
  SelectSeq(stream, LAMBDA n : n.ch = "cmd" /\ Len(n.data) > 0 /\ n.data[1] = OP_C8)

MarkerOf(data, byte) == Len(data) >= 3 /\ data[3] = byte

\* C33: getOldestFile fails, and returns no bytes, when the first 0xc8
\* notification after the 0xc3 command is shorter than 3 bytes or its third byte
\* is not 0xbe, and when the next one is shorter than 3 bytes or its third byte is
\* not 0xed: a file is returned only after a start marker and an end marker came
\* as the first two.
C33_FirstMarkersChecked ==
  FileReturned =>
    /\ Len(C8Notifications) >= 2
    /\ MarkerOf(C8Notifications[1].data, BYTE_BE)
    /\ MarkerOf(C8Notifications[2].data, BYTE_ED)

\* getOldestFile throws the error of the given message and returns no bytes.
ThrowsUnexpected(message) ==
  /\ pc' = Tail(pc)
  /\ ret' = [kind |-> "throw", val |-> message, data |-> <<>>]
  /\ fileTransferBuffer' = fileTransferBuffer

\* C33 with the notification named that the code examines: getOldestFile fails
\* when the 0xc8 notification that resolves its wait for the start marker is
\* shorter than 3 bytes or has a third byte other than 0xbe, and when the one
\* that resolves its wait for the end marker is shorter than 3 bytes or has a
\* third byte other than 0xed.
C33_AwaitedMarkersChecked ==
  [][ /\ (Top = "getOldestFile.wStart" /\ Resolved /\ pc' # pc
          /\ ~MarkerOf(Awaited.data, BYTE_BE)) =>
            ThrowsUnexpected("Unexpected file transfer start response")
      /\ (Top = "getOldestFile.wEnd" /\ Resolved /\ pc' # pc
          /\ ~MarkerOf(Awaited.data, BYTE_ED)) =>
            ThrowsUnexpected("Unexpected file transfer end response") ]_vars

\* getOldestFile has thrown on a notification of two bytes that resolved its
\* wait for the start marker.
C33_Witness ==
  /\ loc.op = "getOldestFile"
  /\ pc = <<>>
  /\ ret = Err("Unexpected file transfer start response")
  /\ C8Notifications # <<>>
  /\ C8Notifications[1].data = <<OP_C8, 0>>

FileCommands == {OP_C1, OP_C5, OP_C3, OP_CA}

\* The first place of the opcode among the commands written, 0 when it was not.
FirstSent(op) ==
  IF \E n \in 1..Len(sent) : sent[n][1] = op
  THEN CHOOSE n \in 1..Len(sent) :
         sent[n][1] = op /\ \A m \in 1..(n - 1) : sent[m][1] # op
  ELSE 0

\* The commands of authentication and of the paper mode were written before the
\* first command that counts, describes, downloads or deletes a file; at most
\* one file is downloaded and not yet deleted.
FileCommandsAfterSetup ==
  InSession =>
    /\ \A n \in 1..Len(sent) :
         sent[n][1] \in FileCommands =>
           /\ 0 < FirstSent(OP_E6) /\ FirstSent(OP_E6) < FirstSent(OP_B1)
           /\ FirstSent(OP_B1) < n
    /\ Deletes <= CurrentFile /\ CurrentFile <= Deletes + 1

\* An error of useSavedUUID or of setPaperMode ends the run with an error, and an
\* ended run writes nothing; the download command of the next file is written
\* when every file downloaded before has been deleted and no reply is awaited.
SetupFailureAborts ==
  InSession =>
    /\ (Top \in {"downloadAllNotes.authenticated", "downloadAllNotes.paperMode"}
        /\ ret.kind = "throw" /\ pc' # pc) =>
          (pc' = <<>> /\ ret'.kind = "throw" /\ sent' = sent)
    /\ pc = <<>> => sent' = sent
    /\ (Len(sent') > Len(sent) /\ sent'[Len(sent')][1] = OP_C3) =>
          /\ Deletes = CurrentFile
          /\ awaiting = 0
          /\ \A op \in Opcodes : pendingReplies[op] = 0
    /\ (Len(sent') > Len(sent) /\ sent'[Len(sent')][1] \in FileCommands) =>
          /\ Len(pc) = 2
          /\ pc[2] \notin {"downloadAllNotes.authenticated", "downloadAllNotes.timeSet",
                           "downloadAllNotes.gattSet", "downloadAllNotes.paperMode"}

Mod16(v) == ((v % 65536) + 65536) % 65536

\* The value of a lane from its field f, the history of the lane and the input
\* bytes at pos: the prediction, the prediction plus a signed byte, or a literal.
LaneValue(f, h, data, pos) ==
  LET prediction == Mod16(2 * h.prev - h.prev2)
      byte == ByteAt(data, pos)
  IN  IF f = 2 THEN Mod16(prediction + (IF byte >= 128 THEN byte - 256 ELSE byte))
      ELSE IF f = 3 THEN byte + 256 * ByteAt(data, pos + 1)
      ELSE prediction

\* The output of the units from index on: hist[i] holds the last two values of
\* lane i, both the literal after a literal.
RECURSIVE UnitsOutput(_, _, _)
UnitsOutput(data, index, hist) ==
  IF index >= Len(data) THEN <<>>
  ELSE
    LET dataTag == data[index + 1]
        f == [i \in 0..3 |-> (dataTag \div (4 ^ i)) % 4]
        need == [i \in 0..3 |-> IF f[i] = 2 THEN 1 ELSE IF f[i] = 3 THEN 2 ELSE 0]
        pos == [i \in 0..3 |->
                  index + 1 + (IF i > 0 THEN need[0] ELSE 0)
                  + (IF i > 1 THEN need[1] ELSE 0) + (IF i > 2 THEN need[2] ELSE 0)]
        v == [i \in 0..3 |-> LaneValue(f[i], hist[i], data, pos[i])]
        after == [i \in 0..3 |->
                    IF f[i] = 3 THEN [prev |-> v[i], prev2 |-> v[i]]
                    ELSE [prev |-> v[i], prev2 |-> hist[i].prev]]
    IN  << v[0] % 256, v[0] \div 256, v[1] % 256, v[1] \div 256,
           v[2] % 256, v[2] \div 256, v[3] % 256, v[3] \div 256 >>
        \o UnitsOutput(data, index + 1 + FieldBytes(dataTag), after)

\* C35: per unit and lane, a field 0 or 1 emits the prediction 2 * prev - prev2
\* mod 2^16, a field 2 the prediction plus a signed byte, a field 3 the literal,
\* which becomes both values of the lane's history; a unit appends 8 bytes, four
\* lanes little-endian in lane order, so the length of the output is a multiple
\* of 8.
C35_LaneFields ==
  (loc.op = "decompress" /\ Top \in {"decompress.other", "decompress.again", "done"}) =>
    /\ Len(loc.first) % 8 = 0
    /\ ~EndsInsideUnit(loc.arg.data, loc.arg.offset) =>
         loc.first = UnitsOutput(loc.arg.data, loc.arg.offset,
                                 [i \in 0..3 |-> [prev |-> 0, prev2 |-> 0]])

\* An absolute point, four literals, and a delta packet after it: in the second
\* unit lane 1 adds a byte to the literal and the other lanes repeat theirs.
C35_Witness ==
  /\ loc.op = "decompress"
  /\ Top = "decompress.other"
  /\ loc.arg.offset = 0
  /\ loc.arg.data = <<255, 255, 255, 232, 3, 208, 7, 255, 1, 8, 1>>
  /\ loc.first = <<255, 255, 232, 3, 208, 7, 255, 1, 255, 255, 233, 3, 208, 7, 255, 1>>

\* No wait was rejected as busy, and at most one wait is pending: the one that
\* the workflow awaits.
OneWaitAtATime ==
  /\ \A i \in WaitIds : waits[i].reason # "busy"
  /\ \A i \in WaitIds : waits[i].state = "pending" => i = awaiting
  /\ \A op \in Opcodes : pendingReplies[op] # 0 => pendingReplies[op] = awaiting

\* A function of the workflow returns or throws: the table of the pending
\* waiters is empty and no timer is armed.
ReturnsWithEmptyTable ==
  (pc # <<>> /\ pc' = Tail(pc)) =>
    /\ \A op \in Opcodes : pendingReplies'[op] = 0
    /\ timers' = {}
    /\ awaiting' = 0

\* C36: in the download and registration workflows every wait is finished before
\* the next is registered: 'Already waiting for reply' is never raised, and the
\* table of pending waiters is empty whenever a protocol operation returns or throws.
C36_WaitsInSequence ==
  /\ [](OneWaitAtATime)
  /\ [][ReturnsWithEmptyTable]_vars

\* A download run has come to its second wait for a 0xb3 status reply, that of
\* selectTransferGatt, after the wait of setTime for the same opcode: the wait
\* is pending and is the only entry of the table.
C36_Witness ==
  /\ InSession
  /\ Top = "selectTransferGatt.wB3"
  /\ Awaited.state = "pending"
  /\ pendingReplies[OP_B3] = awaiting
  /\ \A op \in Opcodes \ {OP_B3} : pendingReplies[op] = 0

\* The operations that wait for a 0xb3 status reply after setTime in a run or a
\* registration.
LaterStatusWaits ==
  { "selectTransferGatt.wB3", "setPaperMode.wB3", "deleteOldestFile.wB3",
    "registerComplete.wB3" }

\* C37: a 0xb3 status reply is consumed only by the operation whose command
\* caused it: the reply that resolves the wait of a later operation is one of the
\* replies that the device gives to the command of that operation, the last
\* command written.
C37_StatusReplyIsOwn ==
  (Top \in LaterStatusWaits /\ Resolved) =>
    <<Cmd(Awaited.data)>> \in DeviceScripts(sent[Len(sent)])

(***************************************************************************)
(* C38: the direct packet scanner terminates on every finite byte sequence. *)
(* At every offset below the end of the data it scans, the loop of          *)
(* parseStrokes either stops (the packet there is the EOF sentinel) or its  *)
(* iteration moves the offset forward by at least one byte, whatever the    *)
(* packet there is identified as: unknown bytes and a file signature in the *)
(* middle of the stream included.  The offset therefore passes the end of   *)
(* the data after at most Len(data) iterations.                             *)
(***************************************************************************)
ScanAt(offset) == [loc EXCEPT !.offset = offset]

C38_ScannerAdvances ==
  loc.op = "parseStrokes" =>
    \A offset \in 0..(Len(loc.data) - 1) :
      \/ ScanDone(ScanAt(offset))
      \/ ScanStep(ScanAt(offset)).offset >= offset + 1

\* The loop has gone past an unknown packet and stands at a file signature in
\* the middle of the stream, with a packet still to come after it.
C38_Witness ==
  /\ loc.op = "parseStrokes" /\ Top = "parseStrokes.loop"
  /\ Len(loc.arg) = 3
  /\ loc.arg[1].kind = "unknown" /\ loc.arg[2].kind = "signature"
  /\ loc.arg[3].kind = "abs"
  /\ loc.offset = 2
  /\ PacketType(loc) = "FILE_HEADER"

(***************************************************************************)
(* C39: a registration attempt that fails leaves the registry unchanged,   *)
(* and an entry is stored only after the whole handshake, with exactly the *)
(* UUID that was sent to the device.  A registerDevice that has returned   *)
(* with an error (a write failed, the button confirmation timed out,       *)
(* RegisterComplete was rejected or not answered) has stored nothing.  The *)
(* step that stores the entry follows a handshake in which no step has     *)
(* thrown: the CONNECT command carried the bytes of the stored UUID, the   *)
(* button-press command of the Slate/Intuos flow carried them too, the     *)
(* button confirmation was received, and in the Spark flow the last        *)
(* command written is RegisterComplete and a 0xb3 reply that does not      *)
(* reject it was notified after it.                                        *)
(***************************************************************************)
RegistrationThrew == loc.op = "registerDevice" /\ pc = <<>> /\ ret.kind = "throw"

FailedRegistrationStoresNothing == RegistrationThrew => registry = NoDevice

WasSent(msg) == \E i \in 1..Len(sent) : sent[i] = msg

\* A 0xb3 notification that does not reject RegisterComplete was delivered to
\* the wait of registerComplete.
CompleteAccepted ==
  \E h \in heard :
    /\ h.at = "registerComplete.wB3"
    /\ h.data[1] = OP_B3
    /\ ~(Len(h.data) > 2 /\ h.data[3] # 0)

StoredAfterHandshake ==
  registry' # registry =>
    /\ loc.op = "registerDevice"
    /\ registry = NoDevice
    /\ WasSent(createMessage(OP_E6, uuidBytes(registry'.uuid)))
    /\ loc.button = "confirmed"
    /\ IF loc.isSpark
       THEN /\ WasSent(createMessage(OP_E3, <<1>>))
            /\ sent[Len(sent)] = createMessage(OP_E5, <<>>)
            /\ CompleteAccepted
            /\ ret.kind = "return"
       ELSE WasSent(createMessage(OP_E7, uuidBytes(registry'.uuid)))

C40_OwnFilePerNote ==
  InSession =>
    \A a, b \in 1..Len(loc.notes) :
      a # b => loc.notes[a].filename # loc.notes[b].filename

====
